---- MODULE Spec2Model ----
(***************************************************************************)
(* Model of the F* backend of hacspec, language/src/rustspec_to_fstar.rs.  *)
(*                                                                         *)
(* Text is modelled at character level: a text is a sequence of           *)
(* one-character strings.  A document is such a sequence with the marks of *)
(* its layout in it (line, hardline, group, nest); Render lays it out on a  *)
(* page of a given width.                                                  *)
(***************************************************************************)
EXTENDS Integers, Sequences, FiniteSets, TLC

VARIABLES
    pc,         \* position of the running call
    ident,      \* translate_ident: the Ident it is given
    identOut,   \* translate_ident: the token it returned
    fn,         \* the resolver running: "binop" or "prefix"
    dict,       \* the TypeDict: name -> [ty |-> BaseTyp, entry |-> DictEntry]
    op,         \* translate_binop: the BinOpKind
    typ,        \* the operand type / prefix type of the outermost call
    cur,        \* the type given to the innermost (running) recursive call
    steps,      \* number of recursive calls made so far
    resOut,     \* what the outermost call returned, or how it aborted
    stmt,       \* translate_statement: the Statement it is given
    stmtOut,    \* translate_statement: the document it returned, or how it aborted
    program,    \* translate_and_write_to_file: the items of the Program
    path,       \* translate_and_write_to_file: the file argument
    file,       \* the output file on disk: absent, or its content
    diags,      \* the diagnostics reported through the session
    rendered,   \* the buffer w the program is rendered into
    ioErr,      \* the I/O error the file system answered with, "" if none
    outcome,    \* how translate_and_write_to_file ended
    item,       \* translate_item: the Item it is given
    itemOut,    \* translate_item: the document it returned, or how it aborted
    call,       \* translate_func_name: its arguments [prefix, name, typ_dict]
    callOut,    \* translate_func_name: the document it returned, or how it aborted
    btyp,       \* translate_base_typ: the BaseTyp it is given
    btypOut     \* translate_base_typ: the token it returned

identVars == <<ident, identOut>>
resolveVars == <<fn, dict, op, typ, cur, steps, resOut>>
stmtVars == <<stmt, stmtOut>>
emitVars == <<program, path, file, diags, rendered, ioErr, outcome>>
itemVars == <<item, itemOut>>
callVars == <<call, callOut>>
btypVars == <<btyp, btypOut>>
vars == <<pc, ident, identOut, fn, dict, op, typ, cur, steps, resOut, stmt, stmtOut,
          program, path, file, diags, rendered, ioErr, outcome,
          item, itemOut, call, callOut, btyp, btypOut>>

NoValue == <<"<none>">>

\* How a call ends: it returns the value v, Ok(v), or it aborts
Ok(v) == [ok |-> v]
Panic == [abort |-> "panic"]                    \* panic!(), unwrap() of None or Err
Unimplemented == [abort |-> "unimplemented"]    \* unimplemented!()
StackOverflow == [abort |-> "stack overflow"]
NoOutcome == [none |-> TRUE]
IsAbort(o) == "abort" \in DOMAIN o
IsOk(o) == "ok" \in DOMAIN o

IdentIdle == ident = NoValue /\ identOut = NoValue
StmtIdle == stmt = [none |-> TRUE] /\ stmtOut = NoOutcome
EmitIdle ==
    /\ program = <<>> /\ path = <<>> /\ file = [absent |-> TRUE]
    /\ diags = <<>> /\ rendered = <<>> /\ ioErr = "" /\ outcome = NoOutcome
ItemIdle == item = [none |-> TRUE] /\ itemOut = NoOutcome
CallIdle == call = [none |-> TRUE] /\ callOut = NoOutcome
BtypIdle == btyp = [none |-> TRUE] /\ btypOut = NoValue
ResolveIdle ==
    /\ fn = NoValue /\ dict = NoValue /\ op = NoValue /\ typ = NoValue
    /\ cur = NoValue /\ steps = 0 /\ resOut = NoOutcome

(***************************************************************************)
(* Characters                                                              *)
(***************************************************************************)
\* The letters and digits of ASCII, and one representative of each class of
\* characters outside ASCII that the code tells apart: an upper case letter
\* (U+00C9), its lower case (U+00E9), and a decimal digit (U+0663, written
\* "<U+0663>", one character).
UpperSeq == <<"A", "B", "C", "D", "E", "F", "G", "H", "I", "J", "K", "L", "M",
             "N", "O", "P", "Q", "R", "S", "T", "U", "V", "W", "X", "Y", "Z",
             "É">>
LowerSeq == <<"a", "b", "c", "d", "e", "f", "g", "h", "i", "j", "k", "l", "m",
             "n", "o", "p", "q", "r", "s", "t", "u", "v", "w", "x", "y", "z",
             "é">>
UpperChars == {UpperSeq[i] : i \in 1..Len(UpperSeq)}
LowerChars == {LowerSeq[i] : i \in 1..Len(LowerSeq)}
ArabicIndicThree == "<U+0663>"
DigitChars == {"0", "1", "2", "3", "4", "5", "6", "7", "8", "9", ArabicIndicThree}

\* char::is_uppercase, char::is_lowercase, and the class \d of the regex crate
IsUpper(c) == c \in UpperChars
IsLower(c) == c \in LowerChars
IsDigit(c) == c \in DigitChars

\* str::len of one character: the number of bytes of its UTF-8 encoding
CharWidth(c) ==
    CASE c \in {"É", "é", ArabicIndicThree, "", " "} -> 2
      [] c \in {"<U+1680>", "<U+2000>", "<U+2001>", "<U+2002>", "<U+2003>",
                "<U+2004>", "<U+2005>", "<U+2006>", "<U+2007>", "<U+2008>",
                "<U+2009>", "<U+200A>", "<U+2028>", "<U+2029>", "<U+202F>",
                "<U+205F>", "<U+3000>"} -> 3
      [] OTHER -> 1

ToLowerChar(c) ==
    IF IsUpper(c) THEN LowerSeq[CHOOSE i \in 1..Len(UpperSeq) : UpperSeq[i] = c] ELSE c

ToLower(s) == [i \in 1..Len(s) |-> ToLowerChar(s[i])]

DigitChar(d) ==
    CASE d = 0 -> "0" [] d = 1 -> "1" [] d = 2 -> "2" [] d = 3 -> "3"
      [] d = 4 -> "4" [] d = 5 -> "5" [] d = 6 -> "6" [] d = 7 -> "7"
      [] d = 8 -> "8" [] d = 9 -> "9"

\* format!("{}", n) of an integer
RECURSIVE Decimal(_)
Decimal(n) == IF n < 0 THEN <<"-">> \o Decimal(0 - n)
              ELSE IF n < 10 THEN <<DigitChar(n)>>
              ELSE Decimal(n \div 10) \o <<DigitChar(n % 10)>>

\* s has the text t at position i
HasAt(s, i, t) ==
    /\ i + Len(t) - 1 <= Len(s)
    /\ \A j \in 1..Len(t) : s[i + j - 1] = t[j]

Contains(s, t) == \E i \in 1..Len(s) : HasAt(s, i, t)

EndsWith(s, t) == Len(s) >= Len(t) /\ HasAt(s, Len(s) - Len(t) + 1, t)

(***************************************************************************)
(* translate_ident_str                                                     *)
(***************************************************************************)
\* number of digits the greedy \d{1,3} takes at position i (0: no digit there)
DigitRun(s, i) ==
    IF i > Len(s) \/ ~IsDigit(s[i]) THEN 0
    ELSE IF i + 1 > Len(s) \/ ~IsDigit(s[i + 1]) THEN 1
    ELSE IF i + 2 > Len(s) \/ ~IsDigit(s[i + 2]) THEN 2
    ELSE 3

\* Regex (?P<prefix>(U|I))(?P<digits>\d{1,3}), replace_all by ${prefix}int${digits}:
\* leftmost non-overlapping matches, the replacement is not scanned again.
RECURSIVE SecretIntRewriteFrom(_, _)
SecretIntRewriteFrom(s, i) ==
    IF i > Len(s) THEN <<>>
    ELSE IF s[i] \in {"U", "I"} /\ DigitRun(s, i + 1) > 0
         THEN LET n == DigitRun(s, i + 1)
              IN  <<s[i], "i", "n", "t">> \o SubSeq(s, i + 1, i + n)
                      \o SecretIntRewriteFrom(s, i + n + 1)
         ELSE <<s[i]>> \o SecretIntRewriteFrom(s, i + 1)

\* mutant: the (U|I)<digits> rewrite is left out
SecretIntRewrite_Skipped(s) == s

SecretIntRewrite(s) == SecretIntRewriteFrom(s, 1)

\* Regex iint (case sensitive), replace_all by int
RECURSIVE SignedIntFixFrom(_, _)
SignedIntFixFrom(s, i) ==
    IF i > Len(s) THEN <<>>
    ELSE IF HasAt(s, i, <<"i", "i", "n", "t">>)
         THEN <<"i", "n", "t">> \o SignedIntFixFrom(s, i + 4)
         ELSE <<s[i]>> \o SignedIntFixFrom(s, i + 1)

SignedIntFix(s) == SignedIntFixFrom(s, 1)

\* heck's to_snake_case on one word of letters, digits and underscores: the
\* word is cut after a character followed by an underscore, between a lower
\* case character and an upper case one, and before the last upper case
\* character of an upper case run followed by a lower case one; underscores
\* are dropped, the pieces are lower-cased and joined by "_".
\*   init: start of the piece being collected, mode: "B"oundary, "L"ower, "U"pper
RECURSIVE SnakeFrom(_, _, _, _, _)
SnakeFrom(s, i, init, mode, first) ==
    LET sep == IF first THEN <<>> ELSE <<"_">>
    IN
    IF i > Len(s) THEN <<>>
    ELSE IF s[i] = "_"
         THEN SnakeFrom(s, i + 1, IF init = i THEN init + 1 ELSE init, mode, first)
    ELSE IF i = Len(s)
         THEN sep \o ToLower(SubSeq(s, init, Len(s)))
    ELSE LET c == s[i]
             next == s[i + 1]
             nextMode == IF IsLower(c) THEN "L" ELSE IF IsUpper(c) THEN "U" ELSE mode
         IN  IF next = "_" \/ (nextMode = "L" /\ IsUpper(next))
             THEN sep \o ToLower(SubSeq(s, init, i))
                      \o SnakeFrom(s, i + 1, i + 1, "B", FALSE)
             ELSE IF mode = "U" /\ IsUpper(c) /\ IsLower(next)
             THEN sep \o ToLower(SubSeq(s, init, i - 1))
                      \o SnakeFrom(s, i + 1, i, "B", FALSE)
             ELSE SnakeFrom(s, i + 1, init, nextMode, first)

to_snake_case(s) == SnakeFrom(s, 1, 1, "B", TRUE)

NewKeyword == <<"n", "e", "w">>

\* mutant: the reserved-word escape is left out
translate_ident_str_NoEscape(ident_str) ==
    to_snake_case(SignedIntFix(SecretIntRewrite(ident_str)))

translate_ident_str(ident_str) ==
    LET snake_case_ident == to_snake_case(SignedIntFix(SecretIntRewrite(ident_str)))
    IN  IF snake_case_ident = NewKeyword
        THEN <<"n", "e", "w", "_">>
        ELSE snake_case_ident

\* An Ident is [orig |-> s] (Ident::Original) or [hac |-> id, s |-> s] (Ident::Hacspec)
IsOriginal(x) == "orig" \in DOMAIN x

IdentString(x) ==
    IF IsOriginal(x) THEN x.orig ELSE x.s \o <<"_">> \o Decimal(x.hac)

translate_ident(x) == translate_ident_str(IdentString(x))

(***************************************************************************)
(* translate_base_typ                                                      *)
(*                                                                         *)
(* A BaseTyp is a record [k |-> variant, ...]:                             *)
(*   [k |-> "Seq", el |-> tau]                                             *)
(*   [k |-> "Array", size |-> [ident |-> s] or [int |-> n], el |-> tau]    *)
(*   [k |-> "Named", id |-> Ident]        (no generic arguments)           *)
(*   [k |-> "NaturalInteger", modulo |-> s]                                *)
(*   [k |-> "Variable", id |-> n], [k |-> "Tuple", args |-> <<tau ...>>]   *)
(* and [k |-> v] for the variants without fields.                          *)
(***************************************************************************)
Txt_unit == <<"u", "n", "i", "t">>
Txt_bool == <<"b", "o", "o", "l">>
Txt_pub_ == <<"p", "u", "b", "_">>
Txt_uint == <<"u", "i", "n", "t">>
Txt_int == <<"i", "n", "t">>
Txt_size == <<"_", "s", "i", "z", "e">>
Txt_string == <<"s", "t", "r", "i", "n", "g">>
Txt_seq == <<"s", "e", "q">>
Txt_lseq == <<"l", "s", "e", "q">>
Txt_nat == <<"n", "a", "t">>
Txt_nat_mod == <<"n", "a", "t", "_", "m", "o", "d">>
Space == <<" ">>

(***************************************************************************)
(* Documents of the pretty crate (RcDoc) and their layout                  *)
(*                                                                         *)
(* A document is the sequence of its characters and layout marks, in the   *)
(* order a traversal from left to right meets them:                        *)
(*   "<line>"     RcDoc::line(): a blank when flat, a line break if not    *)
(*   "<line_>"    RcDoc::line_(): nothing when flat, a line break if not   *)
(*   "<hardline>" RcDoc::hardline(): always a line break                   *)
(*   "<group>" ... "</group>"    doc.group()                               *)
(*   "<nest>" ... "</nest>"      doc.nest(2)                               *)
(* RcDoc::space() is the character " ", append is \o, nil is <<>>.  Every   *)
(* other element is a character of a text, the line feed "\n" of a string  *)
(* literal included: a text is written as it is.                           *)
(***************************************************************************)
Hardline == <<"<hardline>">>
Line == <<"<line>">>
Line_ == <<"<line_>">>
Group(d) == <<"<group>">> \o d \o <<"</group>">>
Nest(d) == <<"<nest>">> \o d \o <<"</nest>">>

\* write_newline: the line break and the indentation of the new line
NewlineAt(ind) == <<"\n">> \o [k \in 1..ind |-> " "]

\* fitting: does the group that begins at position j of d fit into the rem
\* columns left on the line?  The group is measured flat, and after it the
\* rest of the document, broken, up to its first line break.  A hardline
\* inside the group makes it not fit.  One step of the measuring, at the
\* character or mark c, on the state
\*   depth: the groups open, counted from the group measured (0: past it)
\*   rem:   the columns left
\*   fits:  "yes" or "no" once it is decided, "?" before
FittingStep(c, st) ==
    CASE c = "<group>" -> [st EXCEPT !.depth = IF @ > 0 THEN @ + 1 ELSE 0]
      [] c = "</group>" -> [st EXCEPT !.depth = IF @ > 0 THEN @ - 1 ELSE 0]
      [] c \in {"<nest>", "</nest>"} -> st
      [] c = "<line>" ->
            IF st.depth = 0 THEN [st EXCEPT !.fits = "yes"]
            ELSE IF st.rem >= 1 THEN [st EXCEPT !.rem = @ - 1]
            ELSE [st EXCEPT !.fits = "no"]
      [] c = "<line_>" -> IF st.depth = 0 THEN [st EXCEPT !.fits = "yes"] ELSE st
      [] c = "<hardline>" -> [st EXCEPT !.fits = IF st.depth = 0 THEN "yes" ELSE "no"]
      [] OTHER ->
            IF st.rem >= CharWidth(c) THEN [st EXCEPT !.rem = @ - CharWidth(c)]
            ELSE [st EXCEPT !.fits = "no"]

\* the steps at the positions lo..hi of d, from left to right, up to the
\* decision
RECURSIVE FittingRun(_, _, _, _)
FittingRun(d, lo, hi, st) ==
    IF lo > hi \/ st.fits # "?" THEN st
    ELSE IF lo = hi THEN FittingStep(d[lo], st)
    ELSE FittingRun(d, (lo + hi) \div 2 + 1, hi,
                    FittingRun(d, lo, (lo + hi) \div 2, st))

\* a document that ends before a line break fits
Fitting(d, j, rem) ==
    FittingRun(d, j, Len(d), [depth |-> 1, rem |-> rem, fits |-> "?"]).fits # "no"

\* best: one step of the layout of d, at position j, on the state
\*   out:   the text written
\*   pos:   the column reached
\*   inds:  the indentations of the open nests, the innermost first
\*   modes: the modes of the open groups, the innermost first
BestStep(d, j, st, width) ==
    CASE d[j] = "<group>" ->
            [st EXCEPT !.modes =
                <<IF st.modes[1] = "Flat" \/ Fitting(d, j + 1, width - st.pos)
                  THEN "Flat" ELSE "Break">> \o @]
      [] d[j] = "</group>" -> [st EXCEPT !.modes = Tail(@)]
      [] d[j] = "<nest>" -> [st EXCEPT !.inds = <<@[1] + 2>> \o @]
      [] d[j] = "</nest>" -> [st EXCEPT !.inds = Tail(@)]
      [] d[j] = "<line>" ->
            IF st.modes[1] = "Flat"
            THEN [st EXCEPT !.out = @ \o <<" ">>, !.pos = @ + 1]
            ELSE [st EXCEPT !.out = @ \o NewlineAt(st.inds[1]), !.pos = st.inds[1]]
      [] d[j] = "<line_>" ->
            IF st.modes[1] = "Flat"
            THEN st
            ELSE [st EXCEPT !.out = @ \o NewlineAt(st.inds[1]), !.pos = st.inds[1]]
      [] d[j] = "<hardline>" ->
            [st EXCEPT !.out = @ \o NewlineAt(st.inds[1]), !.pos = st.inds[1]]
      [] OTHER ->
            [st EXCEPT !.out = @ \o <<d[j]>>, !.pos = @ + CharWidth(d[j])]

\* the steps at the positions lo..hi of d, from left to right; nothing is
\* left to lay out once the outermost group is closed.  (The state is looked
\* at before the halves are entered, so that the left half is laid out
\* first.)
RECURSIVE Best(_, _, _, _, _)
Best(d, lo, hi, st, width) ==
    IF lo > hi \/ st.modes = <<>> THEN st
    ELSE IF lo = hi THEN BestStep(d, lo, st, width)
    ELSE Best(d, (lo + hi) \div 2 + 1, hi, Best(d, lo, (lo + hi) \div 2, st, width), width)

\* doc.render(width, w) and doc.pretty(width): the text of d on a page of
\* width columns
Render(d, width) ==
    Best(d, 1, Len(d),
         [out |-> <<>>, pos |-> 0, inds |-> <<0>>, modes |-> <<"Break">>], width).out

RECURSIVE Intersperse(_, _)
Intersperse(docs, sep) ==
    IF docs = <<>> THEN <<>>
    ELSE IF Len(docs) = 1 THEN docs[1]
    ELSE docs[1] \o sep \o Intersperse(Tail(docs), sep)

RECURSIVE Concat(_)
Concat(docs) == IF docs = <<>> THEN <<>> ELSE docs[1] \o Concat(Tail(docs))

make_tuple(args) ==
    Group(<<"(">> \o Nest(Group(Line_ \o Intersperse(args, <<",">> \o Line)))
              \o Line_ \o <<")">>)

make_list(args) ==
    Group(<<"[">> \o Nest(Group(Line_ \o Intersperse(args, <<";">> \o Line)))
              \o Line_ \o <<"]">>)

make_typ_tuple(args) ==
    Group(<<"(">> \o Nest(Group(Line_ \o Intersperse(args, Space \o <<"&">> \o Line)))
              \o Line_ \o <<")">>)

make_paren(e) == Group(<<"(">> \o Nest(Group(Line_ \o e)) \o <<")">>)

make_begin_paren(e) ==
    <<"b", "e", "g", "i", "n">> \o Nest(Group(Line \o e)) \o Line \o <<"e", "n", "d">>

make_let_binding(pat, tau, expr, toplevel) ==
    Nest(Group(<<"l", "e", "t">> \o Space
                   \o Group(pat \o (IF tau = NoValue THEN <<>>
                                     ELSE Space \o <<":">> \o Space \o tau))
                   \o Space \o <<"=">>)
             \o Line \o Group(expr))
        \o (IF toplevel THEN <<>> ELSE Line \o <<"i", "n">>)

RECURSIVE translate_base_typ(_)
translate_base_typ(tau) ==
    CASE tau.k = "Unit" -> Txt_unit
      [] tau.k = "Bool" -> Txt_bool
      [] tau.k = "UInt8" -> Txt_pub_ \o Txt_uint \o <<"8">>
      [] tau.k = "Int8" -> Txt_pub_ \o Txt_int \o <<"8">>
      [] tau.k = "UInt16" -> Txt_pub_ \o <<"u", "i", "n">> \o <<"1", "6">>
      [] tau.k = "Int16" -> Txt_pub_ \o Txt_int \o <<"1", "6">>
      [] tau.k = "UInt32" -> Txt_pub_ \o Txt_uint \o <<"3", "2">>
      [] tau.k = "Int32" -> Txt_pub_ \o Txt_int \o <<"3", "2">>
      [] tau.k = "UInt64" -> Txt_pub_ \o Txt_uint \o <<"6", "4">>
      [] tau.k = "Int64" -> Txt_pub_ \o Txt_int \o <<"6", "4">>
      [] tau.k = "UInt128" -> Txt_pub_ \o Txt_uint \o <<"1", "2", "8">>
      [] tau.k = "Int128" -> Txt_pub_ \o Txt_int \o <<"1", "2", "8">>
      [] tau.k = "Usize" -> Txt_uint \o Txt_size
      [] tau.k = "Isize" -> Txt_int \o Txt_size
      [] tau.k = "Str" -> Txt_string
      [] tau.k = "Seq" -> Group(Txt_seq \o Space \o translate_base_typ(tau.el))
      [] tau.k = "Array" ->
            Group(Txt_lseq \o Space \o translate_base_typ(tau.el) \o Space
                      \o (IF "ident" \in DOMAIN tau.size
                          THEN tau.size.ident
                          ELSE Decimal(tau.size.int)))
      [] tau.k = "Named" ->
            translate_ident(tau.id)
                \o (IF "args" \in DOMAIN tau
                    THEN Space \o Intersperse(
                            [i \in 1..Len(tau.args) |-> translate_base_typ(tau.args[i])], Space)
                    ELSE <<>>)
      [] tau.k = "Variable" -> <<"'", "t">> \o Decimal(tau.id)
      [] tau.k = "Tuple" ->
            make_typ_tuple([i \in 1..Len(tau.args) |-> translate_base_typ(tau.args[i])])
      [] tau.k = "NaturalInteger" -> Txt_nat_mod \o Space \o <<"0", "x">> \o tau.modulo

\* a Typ is [borrow |-> Borrowing, ty |-> BaseTyp]
translate_typ(tau) == translate_base_typ(tau.ty)

(***************************************************************************)
(* Calls of translate_ident                                                *)
(***************************************************************************)
MaxIdentLen == 3
MaxHacspecId == 1

IdentAlphabet ==
    {"U", "I", "N", "n", "e", "w", "i", "t", "8", "3", "2", "_", "É", ArabicIndicThree}

RECURSIVE StringsOfLen(_)
StringsOfLen(n) ==
    IF n = 0 THEN {<<>>}
    ELSE {Append(s, c) : s \in StringsOfLen(n - 1), c \in IdentAlphabet}

\* identifiers as the parser accepts them: not empty, no leading digit
IdentStrings ==
    {s \in UNION {StringsOfLen(n) : n \in 1..MaxIdentLen} : ~IsDigit(s[1])}

Idents ==
    {[orig |-> s] : s \in IdentStrings}
        \cup {[hac |-> id, s |-> s] : id \in 0..MaxHacspecId, s \in IdentStrings}

InitIdent ==
    /\ pc = "call"
    /\ ident \in Idents
    /\ identOut = NoValue
    /\ ResolveIdle
    /\ StmtIdle
    /\ EmitIdle
    /\ ItemIdle /\ CallIdle /\ BtypIdle

TranslateIdent ==
    /\ pc = "call"
    /\ identOut' = translate_ident(ident)
    /\ pc' = "done"
    /\ UNCHANGED <<ident, resolveVars, stmtVars, emitVars, itemVars, callVars, btypVars>>

NextIdent == TranslateIdent

SpecIdent == InitIdent /\ [][NextIdent]_vars

(***************************************************************************)
(* translate_binop                                                         *)
(***************************************************************************)
\* the character ` (U+0060), which a TLA+ string cannot hold
Backquote == "<backquote>"

ArithOps == {"Sub", "Add", "Mul", "Div", "Rem"}
BitOps == {"BitXor", "BitAnd", "BitOr"}
ShiftOps == {"Shl", "Shr"}
CompareOps == {"Lt", "Le", "Ge", "Gt", "Ne", "Eq"}
BoolOps == {"And", "Or"}
BinOpKinds == ArithOps \cup BitOps \cup ShiftOps \cup CompareOps \cup BoolOps

\* the plain infix symbol of an arithmetic operator
PlainInfix(op_) ==
    CASE op_ = "Sub" -> <<"-">>
      [] op_ = "Add" -> <<"+">>
      [] op_ = "Mul" -> <<"*">>
      [] op_ = "Div" -> <<"/">>
      [] op_ = "Rem" -> <<"%">>

\* the named sequence operation
SeqInfix(op_) ==
    CASE op_ = "Sub" -> <<Backquote, "s", "e", "q", "_", "m", "i", "n", "u", "s", Backquote>>
      [] op_ = "Add" -> <<Backquote, "s", "e", "q", "_", "a", "d", "d", Backquote>>
      [] op_ = "Mul" -> <<Backquote, "s", "e", "q", "_", "m", "u", "l", Backquote>>
      [] op_ = "Div" -> <<Backquote, "s", "e", "q", "_", "d", "i", "v", Backquote>>
      [] op_ = "BitXor" -> <<Backquote, "s", "e", "q", "_", "x", "o", "r", Backquote>>
      [] op_ = "BitAnd" -> <<Backquote, "s", "e", "q", "_", "a", "n", "d", Backquote>>
      [] op_ = "BitOr" -> <<Backquote, "s", "e", "q", "_", "o", "r", Backquote>>

\* the last arms of the second match: the symbol that ignores the operand type
GenericInfix(op_) ==
    CASE op_ = "Sub" -> <<"-", ".">>
      [] op_ = "Add" -> <<"+", ".">>
      [] op_ = "Mul" -> <<"*", ".">>
      [] op_ = "Div" -> <<"/", ".">>
      [] op_ = "Rem" -> <<"%", ".">>
      [] op_ = "BitXor" -> <<"^", ".">>
      [] op_ = "BitAnd" -> <<"&", ".">>
      [] op_ = "BitOr" -> <<"|", ".">>
      [] op_ = "Shl" -> <<Backquote, "s", "h", "i", "f", "t", "_", "l", "e", "f", "t", Backquote>>
      [] op_ = "Shr" -> <<Backquote, "s", "h", "i", "f", "t", "_", "r", "i", "g", "h", "t", Backquote>>
      [] op_ = "Lt" -> <<"<", ".">>
      [] op_ = "Le" -> <<"<", "=", ".">>
      [] op_ = "Ge" -> <<">", "=", ".">>
      [] op_ = "Gt" -> <<">", ".">>
      [] op_ = "Ne" -> <<"!", "=">>
      [] op_ = "Eq" -> <<"=", "=">>
      [] op_ = "And" -> <<"&", "&">>
      [] op_ = "Or" -> <<"|", "|">>

\* The first match (lines 226-250) on a named operand type: the lookup in the
\* dictionary either returns, aborts, recurses on the inner type or falls
\* through to the second match.
\* mutant: an Array entry is not resolved to its inner type
BinopNamed_ArrayOpaque(op_, op_typ, typ_dict) ==
    IF op_typ.k # "Named" THEN [kind |-> "fall"]
    ELSE IF ~IsOriginal(op_typ.id) THEN [kind |-> "abort", out |-> Panic]
    ELSE IF op_typ.id.orig \notin DOMAIN typ_dict THEN [kind |-> "fall"]
    ELSE LET e == typ_dict[op_typ.id.orig]
         IN  IF e.entry = "NaturalInteger"
             THEN IF op_ \in ArithOps
                  THEN [kind |-> "return", out |-> Ok(PlainInfix(op_))]
                  ELSE [kind |-> "abort", out |-> Unimplemented]
             ELSE IF e.entry = "Array" THEN [kind |-> "fall"]
             ELSE [kind |-> "recurse", ty |-> e.ty]

\* mutant: the recursive call is given the operand type again, not the inner type
BinopNamed_RecurseOnSelf(op_, op_typ, typ_dict) ==
    IF op_typ.k # "Named" THEN [kind |-> "fall"]
    ELSE IF ~IsOriginal(op_typ.id) THEN [kind |-> "abort", out |-> Panic]
    ELSE IF op_typ.id.orig \notin DOMAIN typ_dict THEN [kind |-> "fall"]
    ELSE LET e == typ_dict[op_typ.id.orig]
         IN  IF e.entry = "NaturalInteger"
             THEN IF op_ \in ArithOps
                  THEN [kind |-> "return", out |-> Ok(PlainInfix(op_))]
                  ELSE [kind |-> "abort", out |-> Unimplemented]
             ELSE [kind |-> "recurse", ty |-> op_typ]

BinopNamed(op_, op_typ, typ_dict) ==
    IF op_typ.k # "Named" THEN [kind |-> "fall"]
    ELSE IF ~IsOriginal(op_typ.id) THEN [kind |-> "abort", out |-> Panic]
    ELSE IF op_typ.id.orig \notin DOMAIN typ_dict THEN [kind |-> "fall"]
    ELSE LET e == typ_dict[op_typ.id.orig]
         IN  IF e.entry = "NaturalInteger"
             THEN IF op_ \in ArithOps
                  THEN [kind |-> "return", out |-> Ok(PlainInfix(op_))]
                  ELSE [kind |-> "abort", out |-> Unimplemented]
             ELSE [kind |-> "recurse", ty |-> e.ty]

\* The second match (lines 251-303), arms in the order of the source
BinopStructural(op_, op_typ) ==
    IF op_ \in {"Sub", "Add", "Mul", "Div"} /\ op_typ.k \in {"Usize", "Isize"}
    THEN Ok(PlainInfix(op_))
    ELSE IF op_ \in {"Sub", "Add", "Mul", "Div", "BitXor", "BitAnd", "BitOr"}
            /\ op_typ.k \in {"Seq", "Array"}
    THEN Ok(SeqInfix(op_))
    ELSE Ok(GenericInfix(op_))

\* the whole function, for a dictionary in which the chain of op_typ ends
RECURSIVE translate_binop(_, _, _)
translate_binop(op_, op_typ, typ_dict) ==
    LET n == BinopNamed(op_, op_typ, typ_dict)
    IN  CASE n.kind = "recurse" -> translate_binop(op_, n.ty, typ_dict)
          [] n.kind \in {"return", "abort"} -> n.out
          [] n.kind = "fall" -> BinopStructural(op_, op_typ)

(***************************************************************************)
(* translate_prefix_for_func_name                                          *)
(*   FuncPrefix is [fp |-> "Regular"], [fp |-> "Array", size |-> ArraySize] *)
(*   or [fp |-> "NatMod", modulo |-> s]; the function returns the pair     *)
(*   [module |-> token, info |-> FuncPrefix].                              *)
(***************************************************************************)
SEQ_MODULE == Txt_seq

IntKinds == {"UInt8", "Int8", "UInt16", "Int16", "UInt32", "Int32", "UInt64",
             "Int64", "UInt128", "Int128", "Usize", "Isize"}

\* mutant: a natural integer is given the sequence namespace
PrefixCall_NatAsSeq(prefix, typ_dict) ==
    CASE prefix.k \in {"Bool", "Unit", "Variable", "Tuple"} ->
            [kind |-> "abort", out |-> Panic]
      [] prefix.k \in IntKinds ->
            [kind |-> "return", out |-> Ok([module |-> Txt_int, info |-> [fp |-> "Regular"]])]
      [] prefix.k = "Str" ->
            [kind |-> "return", out |-> Ok([module |-> Txt_string, info |-> [fp |-> "Regular"]])]
      [] prefix.k = "Seq" ->
            [kind |-> "return", out |-> Ok([module |-> SEQ_MODULE, info |-> [fp |-> "Regular"]])]
      [] prefix.k = "Array" ->
            [kind |-> "return",
             out |-> Ok([module |-> SEQ_MODULE, info |-> [fp |-> "Array", size |-> prefix.size]])]
      [] prefix.k = "Named" ->
            IF ~IsOriginal(prefix.id) THEN [kind |-> "abort", out |-> Panic]
            ELSE IF prefix.id.orig \in DOMAIN typ_dict
            THEN [kind |-> "recurse", ty |-> typ_dict[prefix.id.orig].ty]
            ELSE [kind |-> "return",
                  out |-> Ok([module |-> translate_ident_str(prefix.id.orig),
                           info |-> [fp |-> "Regular"]])]
      [] prefix.k = "NaturalInteger" ->
            [kind |-> "return",
             out |-> Ok([module |-> SEQ_MODULE, info |-> [fp |-> "NatMod", modulo |-> prefix.modulo]])]

\* mutant: an integer type is given its own type token as namespace
PrefixCall_IntOwnName(prefix, typ_dict) ==
    CASE prefix.k \in {"Bool", "Unit", "Variable", "Tuple"} ->
            [kind |-> "abort", out |-> Panic]
      [] prefix.k \in IntKinds ->
            [kind |-> "return", out |-> Ok([module |-> translate_base_typ(prefix),
                                         info |-> [fp |-> "Regular"]])]
      [] prefix.k = "Str" ->
            [kind |-> "return", out |-> Ok([module |-> Txt_string, info |-> [fp |-> "Regular"]])]
      [] prefix.k = "Seq" ->
            [kind |-> "return", out |-> Ok([module |-> SEQ_MODULE, info |-> [fp |-> "Regular"]])]
      [] prefix.k = "Array" ->
            [kind |-> "return",
             out |-> Ok([module |-> SEQ_MODULE, info |-> [fp |-> "Array", size |-> prefix.size]])]
      [] prefix.k = "Named" ->
            IF ~IsOriginal(prefix.id) THEN [kind |-> "abort", out |-> Panic]
            ELSE IF prefix.id.orig \in DOMAIN typ_dict
            THEN [kind |-> "recurse", ty |-> typ_dict[prefix.id.orig].ty]
            ELSE [kind |-> "return",
                  out |-> Ok([module |-> translate_ident_str(prefix.id.orig),
                           info |-> [fp |-> "Regular"]])]
      [] prefix.k = "NaturalInteger" ->
            [kind |-> "return",
             out |-> Ok([module |-> Txt_nat, info |-> [fp |-> "NatMod", modulo |-> prefix.modulo]])]

\* one call of translate_prefix_for_func_name up to its recursive call
PrefixCall(prefix, typ_dict) ==
    CASE prefix.k \in {"Bool", "Unit", "Variable", "Tuple"} ->
            [kind |-> "abort", out |-> Panic]
      [] prefix.k \in IntKinds ->
            [kind |-> "return", out |-> Ok([module |-> Txt_int, info |-> [fp |-> "Regular"]])]
      [] prefix.k = "Str" ->
            [kind |-> "return", out |-> Ok([module |-> Txt_string, info |-> [fp |-> "Regular"]])]
      [] prefix.k = "Seq" ->
            [kind |-> "return", out |-> Ok([module |-> SEQ_MODULE, info |-> [fp |-> "Regular"]])]
      [] prefix.k = "Array" ->
            [kind |-> "return",
             out |-> Ok([module |-> SEQ_MODULE, info |-> [fp |-> "Array", size |-> prefix.size]])]
      [] prefix.k = "Named" ->
            IF ~IsOriginal(prefix.id) THEN [kind |-> "abort", out |-> Panic]
            ELSE IF prefix.id.orig \in DOMAIN typ_dict
            THEN [kind |-> "recurse", ty |-> typ_dict[prefix.id.orig].ty]
            ELSE [kind |-> "return",
                  out |-> Ok([module |-> translate_ident_str(prefix.id.orig),
                           info |-> [fp |-> "Regular"]])]
      [] prefix.k = "NaturalInteger" ->
            [kind |-> "return",
             out |-> Ok([module |-> Txt_nat, info |-> [fp |-> "NatMod", modulo |-> prefix.modulo]])]

\* the whole function, for a dictionary in which the chain of prefix ends
RECURSIVE translate_prefix_for_func_name(_, _)
translate_prefix_for_func_name(prefix, typ_dict) ==
    LET c == PrefixCall(prefix, typ_dict)
    IN  IF c.kind = "recurse"
        THEN translate_prefix_for_func_name(c.ty, typ_dict)
        ELSE c.out

(***************************************************************************)
(* Expressions                                                             *)
(*   [e |-> "Binary", op, e1, e2, op_typ]   op_typ: a BaseTyp or None      *)
(*   [e |-> "Unary", op, e1, op_typ]        op: "Not" or "Neg"             *)
(*   [e |-> "Lit", lit |-> Literal]         Literal: [lit |-> kind, v]     *)
(*   [e |-> "Tuple", es |-> <<e ...>>]                                     *)
(*   [e |-> "Named", id |-> Ident]                                         *)
(*   [e |-> "FuncCall", prefix, name, args] prefix: a BaseTyp or None      *)
(*   [e |-> "MethodCall", sel_arg, sel_typ, f, args]                       *)
(*   [e |-> "ArrayIndex", x |-> Ident, e2]                                 *)
(*   [e |-> "NewArray", args |-> <<e ...>>]                                *)
(*   [e |-> "IntegerCasting"]                                              *)
(***************************************************************************)
Txt_let == <<"l", "e", "t">>
Txt_in == <<"i", "n">>
Txt_if == <<"i", "f">>
Txt_then == <<"t", "h", "e", "n">>
Txt_else == <<"e", "l", "s", "e">>
Txt_begin == <<"b", "e", "g", "i", "n">>
Txt_end == <<"e", "n", "d">>
Txt_foldi == <<"f", "o", "l", "d", "i">>
Txt_fun == <<"(", "f", "u", "n">>
Txt_arrow == <<"-", ">">>
Txt_array_index == <<"a", "r", "r", "a", "y", "_", "i", "n", "d", "e", "x">>
Txt_array_upd == <<"a", "r", "r", "a", "y", "_", "u", "p", "d">>
Txt_from_list == <<"_", "f", "r", "o", "m", "_", "l", "i", "s", "t">>
Txt_unit_lit == <<"(", ")">>
Txt_true == <<"t", "r", "u", "e">>
Txt_false == <<"f", "a", "l", "s", "e">>
Txt_usize == <<"u", "s", "i", "z", "e">>
Txt_isize == <<"i", "s", "i", "z", "e">>
Txt_pub_u == <<"p", "u", "b", "_", "u">>
Txt_pub_i == <<"p", "u", "b", "_", "i">>
Txt_0x == <<"0", "x">>

None == [none |-> TRUE]
IsNone(x) == "none" \in DOMAIN x

\* Option::unwrap
Unwrap(x) == IF IsNone(x) THEN Panic ELSE Ok(x)

\* The document made by appending the parts in the order the code evaluates
\* them: the first part that aborts aborts the whole.
AppendAll(parts) ==
    IF \E i \in DOMAIN parts : IsAbort(parts[i])
    THEN parts[CHOOSE i \in DOMAIN parts :
                  IsAbort(parts[i]) /\ \A j \in 1..(i - 1) : ~IsAbort(parts[j])]
    ELSE Ok(Concat([i \in DOMAIN parts |-> parts[i].ok]))

\* f applied to the document of a part that did not abort
Map1(o, F(_)) == IF IsAbort(o) THEN o ELSE Ok(F(o.ok))

HexDigit(d) ==
    IF d < 10 THEN DigitChar(d)
    ELSE CASE d = 10 -> "a" [] d = 11 -> "b" [] d = 12 -> "c"
           [] d = 13 -> "d" [] d = 14 -> "e" [] d = 15 -> "f"

\* format!("{:x}", n) of a non-negative integer
RECURSIVE Hex(_)
Hex(n) == IF n < 16 THEN <<HexDigit(n)>> ELSE Hex(n \div 16) \o <<HexDigit(n % 16)>>

SizedLitWidth(kind) ==
    CASE kind \in {"Int128", "UInt128"} -> <<"1", "2", "8">>
      [] kind \in {"Int64", "UInt64"} -> <<"6", "4">>
      [] kind \in {"Int32", "UInt32"} -> <<"3", "2">>
      [] kind \in {"Int16", "UInt16"} -> <<"1", "6">>
      [] kind \in {"Int8", "UInt8"} -> <<"8">>

\* the hexadecimal digits, n of them, of the complement of m: the digits of
\* 2^(4n) - 1 - m
RECURSIVE HexComplement(_, _)
HexComplement(m, n) ==
    IF n = 0 THEN <<>>
    ELSE HexComplement(m \div 16, n - 1) \o <<HexDigit(15 - (m % 16))>>

\* format!("{:x}", v) of a signed integer of the kind: a negative value is
\* printed as its two's complement in the width of the kind
HexSigned(v, kind) ==
    IF v >= 0 THEN Hex(v)
    ELSE HexComplement(0 - v - 1,
                       CASE kind = "Int128" -> 32 [] kind = "Int64" -> 16
                         [] kind = "Int32" -> 8 [] kind = "Int16" -> 4
                         [] kind = "Int8" -> 2)

translate_literal(lit) ==
    CASE lit.lit = "Unit" -> Txt_unit_lit
      [] lit.lit = "Bool" -> IF lit.v THEN Txt_true ELSE Txt_false
      [] lit.lit \in {"Int128", "Int64", "Int32", "Int16", "Int8"} ->
            Txt_pub_i \o SizedLitWidth(lit.lit) \o Space \o Txt_0x
                \o HexSigned(lit.v, lit.lit)
      [] lit.lit \in {"UInt128", "UInt64", "UInt32", "UInt16", "UInt8"} ->
            Txt_pub_u \o SizedLitWidth(lit.lit) \o Space \o Txt_0x \o Hex(lit.v)
      [] lit.lit = "Isize" -> Txt_isize \o Space \o Decimal(lit.v)
      [] lit.lit = "Usize" -> Txt_usize \o Space \o Decimal(lit.v)
      [] lit.lit = "Str" -> <<"\"">> \o lit.msg \o <<"\"">>

translate_unop(op_) == IF op_ = "Not" THEN <<"~">> ELSE <<"-">>

(***************************************************************************)
(* translate_func_name                                                     *)
(***************************************************************************)
Txt_secret == <<"s", "e", "c", "r", "e", "t">>
Txt_from_slice == <<"f", "r", "o", "m", "_", "s", "l", "i", "c", "e">>
Txt_from_slice_range == Txt_from_slice \o <<"_", "r", "a", "n", "g", "e">>

\* the translated names that are taken for a secret integer constructor
SecretIntNames ==
    {t \o w : t \in {Txt_uint, Txt_int},
              w \in {<<"1", "2", "8">>, <<"6", "4">>, <<"3", "2">>, <<"1", "6">>, <<"8">>}}

\* the names of the constructors that take the size of the array
SizedConstructors == {<<"n", "e", "w", "_">>, Txt_from_slice, Txt_from_slice_range}

\* type_arg (lines 391-395): the element type of a prefix that is itself a
\* sequence or an array; the dictionary is not consulted
TypeArg(prefix) ==
    IF prefix.k \in {"Seq", "Array"} THEN translate_base_typ(prefix.el) ELSE NoValue

\* the size argument (lines 402-422)
SizeArg(module_name, func_ident, prefix_info) ==
    IF Render(module_name, 0) = SEQ_MODULE /\ Render(func_ident, 0) \in SizedConstructors
    THEN CASE prefix_info.fp = "Array" /\ "ident" \in DOMAIN prefix_info.size ->
                    Ok(Space \o translate_ident_str(prefix_info.size.ident))
           [] prefix_info.fp = "Array" /\ "int" \in DOMAIN prefix_info.size ->
                    Ok(Space \o Decimal(prefix_info.size.int))
           [] prefix_info.fp = "Regular" -> Ok(<<>>)
           [] OTHER -> Panic
    ELSE Ok(<<>>)

\* the name of an unprefixed call (lines 374-387)
UnprefixedName(name) ==
    IF Render(translate_ident(name), 0) \in SecretIntNames
    THEN Txt_secret
    ELSE translate_ident(name)

\* the explicit element-type argument (lines 424-427)
TypeArgDoc(type_arg) ==
    IF type_arg = NoValue THEN <<>> ELSE Space \o <<"#">> \o type_arg

\* the name of a prefixed call (lines 396-428), given what
\* translate_prefix_for_func_name returned
PrefixedName(r, type_arg, func_ident) ==
    IF IsAbort(r) THEN r
    ELSE AppendAll(<<Ok(r.ok.module \o <<"_">> \o func_ident),
                     SizeArg(r.ok.module, func_ident, r.ok.info),
                     Ok(TypeArgDoc(type_arg))>>)

translate_func_name(prefix, name, typ_dict) ==
    IF IsNone(prefix) THEN Ok(UnprefixedName(name))
    ELSE PrefixedName(translate_prefix_for_func_name(prefix, typ_dict),
                      TypeArg(prefix), translate_ident(name))

RECURSIVE translate_expression(_, _)
translate_expression(e, typ_dict) ==
    LET \* the arguments of a call, each in parentheses after a blank
        CallArgs(args) ==
            Map1(AppendAll([i \in DOMAIN args |->
                    Map1(translate_expression(args[i], typ_dict),
                         LAMBDA d : <<Space \o make_paren(d)>>)]),
                 Concat)
    IN
    CASE e.e = "Binary" ->
            Map1(AppendAll(<<Map1(translate_expression(e.e1, typ_dict), make_paren),
                             Ok(Space),
                             IF IsNone(e.op_typ) THEN Panic
                             ELSE translate_binop(e.op, e.op_typ, typ_dict),
                             Ok(Space),
                             Map1(translate_expression(e.e2, typ_dict), make_paren)>>),
                 Group)
      [] e.e = "Unary" ->
            Map1(AppendAll(<<Map1(Unwrap(e.op_typ), LAMBDA t : translate_unop(e.op)),
                             Ok(Space),
                             Map1(translate_expression(e.e1, typ_dict), make_paren)>>),
                 Group)
      [] e.e = "Lit" -> Ok(translate_literal(e.lit))
      [] e.e = "Tuple" ->
            Map1(AppendAll([i \in DOMAIN e.es |->
                    Map1(translate_expression(e.es[i], typ_dict), LAMBDA d : <<d>>)]),
                 make_tuple)
      [] e.e = "Named" -> Ok(translate_ident(e.id))
      [] e.e = "FuncCall" ->
            AppendAll(<<translate_func_name(e.prefix, e.name, typ_dict),
                        CallArgs(e.args)>>)
      [] e.e = "MethodCall" ->
            AppendAll(<<translate_func_name(e.sel_typ, e.f, typ_dict),
                        Map1(translate_expression(e.sel_arg, typ_dict),
                             LAMBDA d : Space \o make_paren(d)),
                        CallArgs(e.args)>>)
      [] e.e = "ArrayIndex" ->
            AppendAll(<<Ok(Txt_array_index), Ok(Space),
                        Ok(make_paren(translate_ident(e.x))), Ok(Space),
                        Map1(translate_expression(e.e2, typ_dict), make_paren)>>)
      [] e.e = "NewArray" ->
            AppendAll(<<Ok(SEQ_MODULE \o Txt_from_list), Ok(Space),
                        Map1(AppendAll([i \in DOMAIN e.args |->
                                Map1(translate_expression(e.args[i], typ_dict),
                                     LAMBDA d : <<d>>)]),
                             make_list)>>)
      [] e.e = "IntegerCasting" -> Unimplemented

RECURSIVE translate_pattern(_)
translate_pattern(p) ==
    CASE p.p = "IdentPat" -> translate_ident(p.id)
      [] p.p = "WildCard" -> <<"_">>
      [] p.p = "Tuple" -> make_tuple([i \in DOMAIN p.pats |-> translate_pattern(p.pats[i])])

(***************************************************************************)
(* Statements and blocks                                                   *)
(*   [s |-> "LetBinding", pat, typ, expr]     typ: a BaseTyp or None       *)
(*   [s |-> "Reassignment", x, e1]                                         *)
(*   [s |-> "ArrayUpdate", x, e1, e2]                                      *)
(*   [s |-> "ReturnExp", e1]                                               *)
(*   [s |-> "Conditional", cond, b1, b2, mutated]   b2, mutated: or None   *)
(*   [s |-> "ForLoop", x, e1, e2, b]                                       *)
(* Block: [stmts |-> <<s ...>>, mutated, return_typ]                       *)
(*   return_typ: [borrow |-> Borrowing, ty |-> BaseTyp] or None            *)
(* MutatedInfo: [vars |-> <<Ident ...>>, stmt |-> Statement]               *)
(***************************************************************************)
\* make_let_binding of an expression that may have aborted
LetBinding(pat, tau, expr, toplevel) ==
    IF IsAbort(expr) THEN expr ELSE Ok(make_let_binding(pat, tau, expr.ok, toplevel))

\* the tuple of the translated mutated variables (lines 521 and 557)
MutatedTuple(mutated_info) ==
    make_tuple([i \in DOMAIN mutated_info.vars |-> translate_ident(mutated_info.vars[i])])

\* the accumulator tuple of a for loop (line 556)
LoopTuple(mutated_info) == MutatedTuple(mutated_info)

\* mutant: the pattern of a conditional lists the variables in reverse
MutatedTuple_Reversed(mutated_info) ==
    make_tuple([i \in DOMAIN mutated_info.vars |->
        translate_ident(mutated_info.vars[Len(mutated_info.vars) + 1 - i])])

\* the let-pattern of a conditional (line 521)
ConditionalPattern(mutated_info) == MutatedTuple(mutated_info)

\* the document of the loop of a for loop (lines 559-578)
LoopExpr(head, mut_tuple) ==
    IF IsAbort(head) THEN head ELSE Ok(Nest(Group(head.ok)) \o Line \o mut_tuple)

\* the match of translate_statement (lines 492-581), before its group()
RECURSIVE StatementDoc(_, _), translate_statement(_, _), translate_block(_, _, _)
StatementDoc(s, typ_dict) ==
    CASE s.s = "LetBinding" ->
            LetBinding(translate_pattern(s.pat),
                       IF IsNone(s.typ) THEN NoValue ELSE translate_typ(s.typ),
                       translate_expression(s.expr, typ_dict), FALSE)
      [] s.s = "Reassignment" ->
            LetBinding(translate_ident(s.x), NoValue,
                       translate_expression(s.e1, typ_dict), FALSE)
      [] s.s = "ArrayUpdate" ->
            LetBinding(translate_ident(s.x), NoValue,
                       AppendAll(<<Ok(Txt_array_upd), Ok(Space),
                                   Ok(translate_ident(s.x)), Ok(Space),
                                   Map1(translate_expression(s.e1, typ_dict), make_paren),
                                   Ok(Space),
                                   Map1(translate_expression(s.e2, typ_dict), make_paren)>>),
                       FALSE)
      [] s.s = "ReturnExp" -> translate_expression(s.e1, typ_dict)
      [] s.s = "Conditional" ->
            IF IsNone(s.mutated) THEN Panic
            ELSE LET mutated_info == s.mutated
                     branch(b) ==
                        AppendAll(<<translate_block(b, TRUE, typ_dict),
                                    Ok(Hardline),
                                    translate_statement(mutated_info.stmt, typ_dict)>>)
                 IN  LetBinding(
                        ConditionalPattern(mutated_info),
                        NoValue,
                        AppendAll(<<Ok(Txt_if), Ok(Space),
                                    translate_expression(s.cond, typ_dict),
                                    Ok(Space), Ok(Txt_then), Ok(Space),
                                    Map1(branch(s.b1), make_begin_paren),
                                    Ok(Space), Ok(Txt_else), Ok(Space),
                                    IF IsNone(s.b2)
                                    THEN Map1(translate_statement(mutated_info.stmt, typ_dict),
                                              make_begin_paren)
                                    ELSE Map1(branch(s.b2), make_begin_paren)>>),
                        FALSE)
      [] s.s = "ForLoop" ->
            IF IsNone(s.b.mutated) THEN Panic
            ELSE LET mutated_info == s.b.mutated
                     mut_tuple == LoopTuple(mutated_info)
                     closure_tuple == make_tuple(<<translate_ident(s.x), mut_tuple>>)
                     loop_expr ==
                        LoopExpr(
                            AppendAll(<<Ok(Txt_foldi), Ok(Space),
                                        Map1(translate_expression(s.e1, typ_dict), make_paren),
                                        Ok(Space),
                                        Map1(translate_expression(s.e2, typ_dict), make_paren),
                                        Ok(Space), Ok(Txt_fun), Ok(Space), Ok(closure_tuple),
                                        Ok(Space), Ok(Txt_arrow), Ok(Line),
                                        translate_block(s.b, TRUE, typ_dict),
                                        Ok(Hardline),
                                        translate_statement(mutated_info.stmt, typ_dict),
                                        Ok(<<")">>)>>),
                            mut_tuple)
                 IN  LetBinding(mut_tuple, NoValue, loop_expr, FALSE)

translate_statement(s, typ_dict) == Map1(StatementDoc(s, typ_dict), Group)

translate_block(b, omit_extra_unit, typ_dict) ==
    AppendAll(<<
        Map1(AppendAll([i \in DOMAIN b.stmts |->
                Map1(translate_statement(b.stmts[i], typ_dict), LAMBDA d : <<Group(d)>>)]),
             LAMBDA docs : Intersperse(docs, Hardline)),
        IF IsNone(b.return_typ) THEN Panic
        ELSE IF /\ b.return_typ.borrow = "Consumed"
                /\ b.return_typ.ty.k = "Unit"
                /\ ~omit_extra_unit
             THEN Ok(Hardline \o Txt_unit_lit)
             ELSE Ok(<<>>)>>)

(***************************************************************************)
(* Calls of translate_binop and translate_prefix_for_func_name, one        *)
(* recursive call at a time                                                *)
(***************************************************************************)
NumNames == 2
MaxDepth == 4       \* depth of recursion at which the stack is exhausted

TypeName(i) == <<"T", DigitChar(i)>>
TypeNames == {TypeName(i) : i \in 1..NumNames}

Ty(k) == [k |-> k]
NamedTyp(n) == [k |-> "Named", id |-> [orig |-> n]]
HygienicTyp == [k |-> "Named", id |-> [hac |-> 0, s |-> TypeName(1)]]
SeqTyp == [k |-> "Seq", el |-> Ty("UInt8")]
ArrayTypInt == [k |-> "Array", size |-> [int |-> 16], el |-> Ty("UInt8")]
ArrayTypIdent == [k |-> "Array", size |-> [ident |-> <<"N">>], el |-> Ty("UInt8")]
NatTyp == [k |-> "NaturalInteger", modulo |-> <<"f", "f">>]
NamedTyps == {NamedTyp(n) : n \in TypeNames} \cup {HygienicTyp}

\* The entries the declarations of a program give rise to: an array
\* declaration an Array entry of an array type, a natural-integer declaration
\* a NaturalInteger entry of a natural-integer type, an alias any type.
DictValues ==
    {[ty |-> t, entry |-> "Array"] : t \in {ArrayTypInt, ArrayTypIdent}}
        \cup {[ty |-> NatTyp, entry |-> "NaturalInteger"]}
        \cup {[ty |-> t, entry |-> "Alias"] :
                t \in {Ty("Usize"), Ty("UInt8"), SeqTyp, ArrayTypInt} \cup NamedTyps}

TypeDicts == UNION {[S -> DictValues] : S \in SUBSET TypeNames}

BinopTypes ==
    {Ty("Usize"), Ty("Isize"), Ty("UInt8"), SeqTyp, ArrayTypInt, NatTyp} \cup NamedTyps

\* a type name that no dictionary holds and that translates to "seq"
V_Seq == <<"S", "e", "q">>

PrefixTypes ==
    BinopTypes \cup {Ty("Bool"), Ty("Str"), ArrayTypIdent, [k |-> "Variable", id |-> 0],
                     [k |-> "Tuple", args |-> <<Ty("Usize"), Ty("Bool")>>],
                     NamedTyp(V_Seq)}

InitResolve ==
    /\ pc = "call"
    /\ IdentIdle
    /\ StmtIdle
    /\ EmitIdle
    /\ ItemIdle /\ CallIdle /\ BtypIdle
    /\ dict \in TypeDicts
    /\ \/ fn = "binop" /\ op \in BinOpKinds /\ typ \in BinopTypes
       \/ fn = "prefix" /\ op = NoValue /\ typ \in PrefixTypes
    /\ cur = typ
    /\ steps = 0
    /\ resOut = NoOutcome

\* translate_binop calls itself on the inner type (line 243)
BinopRecurse ==
    /\ pc = "call" /\ fn = "binop" /\ steps < MaxDepth
    /\ BinopNamed(op, cur, dict).kind = "recurse"
    /\ cur' = BinopNamed(op, cur, dict).ty
    /\ steps' = steps + 1
    /\ UNCHANGED <<pc, fn, dict, op, typ, resOut, identVars, stmtVars, emitVars, itemVars, callVars, btypVars>>

\* translate_binop returns a symbol or aborts, and with it every pending call
BinopReturn ==
    /\ pc = "call" /\ fn = "binop"
    /\ BinopNamed(op, cur, dict).kind # "recurse"
    /\ resOut' = IF BinopNamed(op, cur, dict).kind = "fall"
                  THEN BinopStructural(op, cur)
                  ELSE BinopNamed(op, cur, dict).out
    /\ pc' = "done"
    /\ UNCHANGED <<fn, dict, op, typ, cur, steps, identVars, stmtVars, emitVars, itemVars, callVars, btypVars>>

\* translate_prefix_for_func_name calls itself on the inner type (line 352)
PrefixRecurse ==
    /\ pc = "call" /\ fn = "prefix" /\ steps < MaxDepth
    /\ PrefixCall(cur, dict).kind = "recurse"
    /\ cur' = PrefixCall(cur, dict).ty
    /\ steps' = steps + 1
    /\ UNCHANGED <<pc, fn, dict, op, typ, resOut, identVars, stmtVars, emitVars, itemVars, callVars, btypVars>>

PrefixReturn ==
    /\ pc = "call" /\ fn = "prefix"
    /\ PrefixCall(cur, dict).kind # "recurse"
    /\ resOut' = PrefixCall(cur, dict).out
    /\ pc' = "done"
    /\ UNCHANGED <<fn, dict, op, typ, cur, steps, identVars, stmtVars, emitVars, itemVars, callVars, btypVars>>

\* A recursion that does not end.  How it shows depends on the build: where
\* every call takes a frame the stack is exhausted (both functions in a debug
\* build, translate_prefix_for_func_name in every build), and where the tail
\* call of line 243 is compiled to a jump translate_binop runs on forever.
RecursionOverflow ==
    /\ pc = "call" /\ steps = MaxDepth
    /\ \/ fn = "binop" /\ BinopNamed(op, cur, dict).kind = "recurse"
       \/ fn = "prefix" /\ PrefixCall(cur, dict).kind = "recurse"
    /\ resOut' = StackOverflow
    /\ pc' = "done"
    /\ UNCHANGED <<fn, dict, op, typ, cur, steps, identVars, stmtVars, emitVars, itemVars, callVars, btypVars>>

\* translate_binop, its tail call compiled to a jump: the call neither returns
\* nor aborts, it goes round the cycle of the dictionary
BinopLoop ==
    /\ pc \in {"call", "loop"} /\ fn = "binop" /\ steps = MaxDepth
    /\ BinopNamed(op, cur, dict).kind = "recurse"
    /\ cur' = BinopNamed(op, cur, dict).ty
    /\ pc' = "loop"
    /\ UNCHANGED <<fn, dict, op, typ, steps, resOut, identVars, stmtVars, emitVars, itemVars, callVars, btypVars>>

NextResolve ==
    \/ BinopRecurse
    \/ BinopReturn
    \/ PrefixRecurse
    \/ PrefixReturn
    \/ RecursionOverflow
    \/ BinopLoop

SpecResolve == InitResolve /\ [][NextResolve]_vars

(***************************************************************************)
(* Calls of translate_statement                                            *)
(***************************************************************************)
MaxBlockLen == 1

Var(name) == [orig |-> name]
NamedExp(name) == [e |-> "Named", id |-> Var(name)]
V_acc == <<"a", "c", "c">>
V_b == <<"b">>
V_i == <<"i">>
V_c == <<"c">>
V_x == <<"x">>
V_y == <<"y">>
V_lo == <<"l", "o">>
V_hi == <<"h", "i">>

BinaryExp(op_, e1, e2, op_typ) ==
    [e |-> "Binary", op |-> op_, e1 |-> e1, e2 |-> e2, op_typ |-> op_typ]
ReturnExp(e1) == [s |-> "ReturnExp", e1 |-> e1]
Reassignment(x, e1) == [s |-> "Reassignment", x |-> Var(x), e1 |-> e1]

\* the dictionary the statements are translated under
StmtDict == (TypeName(1) :> [ty |-> ArrayTypInt, entry |-> "Array"])

\* the statements of the bodies: the last one cannot be translated
BodyStmts ==
    {Reassignment(V_acc, BinaryExp("Add", NamedExp(V_acc), NamedExp(V_i), Ty("Usize"))),
     Reassignment(V_b, NamedExp(V_acc)),
     [s |-> "ArrayUpdate", x |-> Var(V_acc), e1 |-> NamedExp(V_i), e2 |-> NamedExp(V_b)],
     [s |-> "LetBinding", pat |-> [p |-> "IdentPat", id |-> Var(V_x)],
      typ |-> [borrow |-> "Consumed", ty |-> Ty("Usize")],
      expr |-> [e |-> "IntegerCasting"]]}

RECURSIVE StmtSeqs(_)
StmtSeqs(n) ==
    IF n = 0 THEN {<<>>}
    ELSE StmtSeqs(n - 1) \cup {Append(ss, t) : ss \in StmtSeqs(n - 1), t \in BodyStmts}

UnitReturn == [borrow |-> "Consumed", ty |-> Ty("Unit")]

\* The annotation the type checker leaves on a conditional or a loop body:
\* the mutated variables and the statement returning their tuple.
MutatedInfo(vs) ==
    [vars |-> [i \in DOMAIN vs |-> Var(vs[i])],
     stmt |-> ReturnExp([e |-> "Tuple", es |-> [i \in DOMAIN vs |-> NamedExp(vs[i])]])]

MutatedInfos ==
    {MutatedInfo(vs) : vs \in {<<>>, <<V_acc>>, <<V_b>>, <<V_acc, V_b>>, <<V_b, V_acc>>}}

Blocks(mutateds) ==
    {[stmts |-> ss, mutated |-> m, return_typ |-> rt] :
        ss \in StmtSeqs(MaxBlockLen), m \in mutateds, rt \in {UnitReturn, None}}

Conditionals ==
    {[s |-> "Conditional", cond |-> NamedExp(V_c), b1 |-> b1, b2 |-> b2, mutated |-> m] :
        b1 \in Blocks({None}), b2 \in Blocks({None}) \cup {None},
        m \in MutatedInfos \cup {None}}

ForLoops ==
    {[s |-> "ForLoop", x |-> Var(V_i), e1 |-> NamedExp(V_lo), e2 |-> NamedExp(V_hi), b |-> b] :
        b \in Blocks(MutatedInfos \cup {None})}

BinaryStmts ==
    {ReturnExp(BinaryExp(o, NamedExp(V_x), NamedExp(V_y), t)) :
        o \in BinOpKinds,
        t \in {Ty("Usize"), Ty("Isize"), Ty("UInt8"), SeqTyp, NatTyp,
                NamedTyp(TypeName(1)), HygienicTyp, None}}

\* a loop whose body holds a conditional
NestedLoops ==
    {[s |-> "ForLoop", x |-> Var(V_i), e1 |-> NamedExp(V_lo), e2 |-> NamedExp(V_hi),
      b |-> [stmts |-> <<c>>, mutated |-> MutatedInfo(<<V_acc>>), return_typ |-> UnitReturn]] :
        c \in {d \in Conditionals : d.b1.stmts = <<>> /\ IsNone(d.b2)}}

\* calls of functions and methods
CallStmts ==
    {ReturnExp([e |-> "FuncCall", prefix |-> pf, name |-> Var(n), args |-> as]) :
        pf \in {None, ArrayTypInt, NamedTyp(TypeName(1)), Ty("Bool")},
        n \in {<<"n", "e", "w">>, <<"U", "8">>},
        as \in {<<>>, <<NamedExp(V_x), NamedExp(V_y)>>, <<[e |-> "IntegerCasting"]>>}}
    \cup
    {ReturnExp([e |-> "MethodCall", sel_arg |-> NamedExp(V_x), sel_typ |-> st,
                f |-> Var(<<"l", "e", "n">>), args |-> as]) :
        st \in {None, SeqTyp, NamedTyp(TypeName(1))},
        as \in {<<>>, <<NamedExp(V_y)>>}}

Statements == Conditionals \cup ForLoops \cup BinaryStmts \cup NestedLoops \cup CallStmts

InitStmt ==
    /\ pc = "call"
    /\ IdentIdle
    /\ ResolveIdle
    /\ EmitIdle
    /\ ItemIdle /\ CallIdle /\ BtypIdle
    /\ stmt \in Statements
    /\ stmtOut = NoOutcome

TranslateStatement ==
    /\ pc = "call"
    /\ stmtOut' = translate_statement(stmt, StmtDict)
    /\ pc' = "done"
    /\ UNCHANGED <<stmt, identVars, resolveVars, emitVars, itemVars, callVars, btypVars>>

NextStmt == TranslateStatement

SpecStmt == InitStmt /\ [][NextStmt]_vars

(***************************************************************************)
(* Items and programs                                                      *)
(*                                                                         *)
(* Item:                                                                   *)
(*   [i |-> "FnDecl", f |-> Ident, sig |-> [args, ret], b |-> Block]       *)
(*       args: <<[x |-> Ident, tau |-> Typ] ...>>, ret: BaseTyp            *)
(*       Typ: [borrow |-> Borrowing, ty |-> BaseTyp]                       *)
(*   [i |-> "ArrayDecl", name, size |-> Expression, cell_t |-> BaseTyp]    *)
(*   [i |-> "ConstDecl", name, ty |-> BaseTyp, e |-> Expression]           *)
(*   [i |-> "NaturalIntegerDecl", nat_name, canvas_name, canvas_size,      *)
(*       modulo]                                                           *)
(***************************************************************************)
Txt_type == <<"t", "y", "p", "e">>

\* the second half of a type declaration (lines 649-658, 672-681, 691-698)
TypeBody(d) == Nest(Group(Line \o d))

translate_item(i, typ_dict) ==
    CASE i.i = "FnDecl" ->
            LetBinding(
                translate_ident(i.f) \o Line
                    \o (IF Len(i.sig.args) > 0
                        THEN Intersperse(
                                [k \in DOMAIN i.sig.args |->
                                    make_paren(translate_ident(i.sig.args[k].x) \o Space
                                        \o <<":">> \o Space
                                        \o translate_typ(i.sig.args[k].tau))],
                                Line)
                        ELSE Txt_unit_lit)
                    \o Line \o Group(<<":">> \o Space \o translate_base_typ(i.sig.ret)),
                NoValue,
                Map1(AppendAll(<<translate_block(i.b, FALSE, typ_dict),
                                 Ok(IF i.sig.ret.k = "Unit"
                                    THEN Hardline \o Txt_unit_lit ELSE <<>>)>>),
                     Group),
                TRUE)
      [] i.i = "ArrayDecl" ->
            AppendAll(<<Ok(Group(Txt_type \o Space \o translate_ident(i.name)
                                     \o Space \o <<"=">>)),
                        Map1(AppendAll(<<Ok(Txt_lseq \o Space
                                            \o make_paren(translate_base_typ(i.cell_t))
                                            \o Space),
                                         Map1(translate_expression(i.size, typ_dict),
                                              make_paren)>>),
                             TypeBody)>>)
      [] i.i = "ConstDecl" ->
            LetBinding(translate_ident(i.name), translate_base_typ(i.ty),
                       translate_expression(i.e, typ_dict), TRUE)
      [] i.i = "NaturalIntegerDecl" ->
            AppendAll(<<Ok(Group(Txt_type \o Space \o translate_ident(i.canvas_name)
                                     \o Space \o <<"=">>)),
                        Map1(AppendAll(<<Ok(Txt_lseq \o Space
                                            \o make_paren(translate_base_typ(Ty("UInt8")))
                                            \o Space),
                                         Map1(translate_expression(i.canvas_size, typ_dict),
                                              make_paren)>>),
                             TypeBody),
                        Ok(Hardline \o Hardline
                           \o Group(Txt_type \o Space \o translate_ident(i.nat_name)
                                        \o Space \o <<"=">>)
                           \o TypeBody(Txt_nat_mod \o Space \o Txt_0x \o i.modulo))>>)

translate_program(p, typ_dict) ==
    AppendAll([k \in DOMAIN p |->
        Map1(translate_item(p[k], typ_dict), LAMBDA d : d \o Hardline \o Hardline)])

(***************************************************************************)
(* translate_and_write_to_file, one step per file-system operation         *)
(***************************************************************************)
MaxItems == 2
PageWidth == 80     \* let width = 80 (line 722)

\* char::is_whitespace, the characters str::trim removes: the Unicode property
\* White_Space; a character a string cannot hold is written "<U+....>"
Whitespace ==
    {" ", "\n", "\t", "\r", "\f", "", "", " ",
     "<U+1680>", "<U+2000>", "<U+2001>", "<U+2002>", "<U+2003>", "<U+2004>",
     "<U+2005>", "<U+2006>", "<U+2007>", "<U+2008>", "<U+2009>", "<U+200A>",
     "<U+2028>", "<U+2029>", "<U+202F>", "<U+205F>", "<U+3000>"}

RECURSIVE TrimStart(_)
TrimStart(t) ==
    IF t # <<>> /\ t[1] \in Whitespace THEN TrimStart(Tail(t)) ELSE t

RECURSIVE TrimEnd(_)
TrimEnd(t) ==
    IF t # <<>> /\ t[Len(t)] \in Whitespace THEN TrimEnd(SubSeq(t, 1, Len(t) - 1)) ELSE t

\* str::trim
Trim(t) == TrimEnd(TrimStart(t))

\* the last position of character ch in t, 0 if there is none
LastIndexOf(t, ch) ==
    IF \E k \in DOMAIN t : t[k] = ch
    THEN CHOOSE k \in DOMAIN t : t[k] = ch /\ \A j \in (k + 1)..Len(t) : t[j] # ch
    ELSE 0

\* Path::file_stem of a path naming a file: the last component without its
\* extension
file_stem(t) ==
    LET name == SubSeq(t, LastIndexOf(t, "/") + 1, Len(t))
        dot == LastIndexOf(name, ".")
    IN  IF dot <= 1 THEN name ELSE SubSeq(name, 1, dot - 1)

Txt_module == <<"m", "o", "d", "u", "l", "e">>
HeaderOptions ==
    <<"\n", "\n", "#", "s", "e", "t", "-", "o", "p", "t", "i", "o",
    "n", "s", " ", "\"", "-", "-", "f", "u", "e", "l", " ", "0",
    " ", "-", "-", "i", "f", "u", "e", "l", " ", "1", " ", "-",
    "-", "z", "3", "r", "l", "i", "m", "i", "t", " ", "1", "5",
    "\"", "\n", "\n", "o", "p", "e", "n", " ", "H", "a", "c", "s",
    "p", "e", "c", ".", "L", "i", "b", "\n", "o", "p", "e", "n",
    " ", "F", "S", "t", "a", "r", ".", "M", "u", "l", "\n", "\n">>

Header(module_name) == Txt_module \o Space \o module_name \o HeaderOptions

NoFile == [absent |-> TRUE]
FileOf(content) == [content |-> content]
Returned == [returned |-> TRUE]
UnwrapErr(why) == [abort |-> "unwrap", err |-> why]
IoErrors == {"permission denied", "no space left"}

\* what a failed write_all leaves of the text in the file
PartialWrites(text) == {SubSeq(text, 1, n) : n \in 0..(Len(text) - 1)}

Lit(kind, v) == [e |-> "Lit", lit |-> [lit |-> kind, v |-> v]]
UnitBlock(ss) == [stmts |-> ss, mutated |-> None, return_typ |-> UnitReturn]
FnDecl(name, ret, b) ==
    [i |-> "FnDecl", f |-> Var(name),
     sig |-> [args |-> <<[x |-> Var(V_x), tau |-> [borrow |-> "Consumed", ty |-> Ty("Usize")]]>>,
              ret |-> ret],
     b |-> b]
ConstDecl(name, e) == [i |-> "ConstDecl", name |-> Var(name), ty |-> Ty("Usize"), e |-> e]

\* items that translate
GoodItems ==
    {FnDecl(<<"f">>, Ty("Usize"),
            [stmts |-> <<ReturnExp(NamedExp(V_x))>>, mutated |-> None,
             return_typ |-> [borrow |-> "Consumed", ty |-> Ty("Usize")]]),
     ConstDecl(<<"k">>, Lit("Usize", 1)),
     \* a string literal that holds a line feed, negative literals
     [i |-> "ConstDecl", name |-> Var(<<"s">>), ty |-> Ty("Str"),
      e |-> [e |-> "Lit", lit |-> [lit |-> "Str", msg |-> <<"a", "\n", "b">>]]],
     [i |-> "ConstDecl", name |-> Var(<<"m">>),
      ty |-> [k |-> "Tuple", args |-> <<Ty("Int8"), Ty("Isize")>>],
      e |-> [e |-> "Tuple", es |-> <<Lit("Int8", -1), Lit("Isize", -3)>>]],
     [i |-> "ArrayDecl", name |-> Var(<<"A">>), size |-> Lit("Usize", 2),
      cell_t |-> Ty("UInt8")],
     [i |-> "NaturalIntegerDecl", nat_name |-> Var(<<"P">>), canvas_name |-> Var(<<"C">>),
      canvas_size |-> Lit("Usize", 2), modulo |-> <<"f", "f">>]}

\* items whose translation aborts: a hygienic identifier as operand type, a
\* conditional without annotation, a block without return type, a cast
BadItems ==
    {ConstDecl(<<"h">>, BinaryExp("Add", NamedExp(V_x), NamedExp(V_y), HygienicTyp)),
     FnDecl(<<"g">>, Ty("Unit"),
            UnitBlock(<<[s |-> "Conditional", cond |-> NamedExp(V_c),
                         b1 |-> UnitBlock(<<>>), b2 |-> None, mutated |-> None]>>)),
     FnDecl(<<"r">>, Ty("Unit"), [stmts |-> <<>>, mutated |-> None, return_typ |-> None]),
     ConstDecl(<<"c">>, [e |-> "IntegerCasting"])}

Items == GoodItems \cup BadItems

RECURSIVE Programs(_)
Programs(n) ==
    IF n = 0 THEN {<<>>}
    ELSE Programs(n - 1) \cup {Append(p, i) : p \in Programs(n - 1), i \in Items}

\* a path as read from a line of text: a leading blank, a Windows line end
Paths == {<<" ", "d", "/", "m", ".", "f", "s", "t", "\r", "\n">>}

InitEmit ==
    /\ pc = "create"
    /\ IdentIdle
    /\ ResolveIdle
    /\ StmtIdle
    /\ ItemIdle /\ CallIdle /\ BtypIdle
    /\ program \in Programs(MaxItems)
    /\ path \in Paths
    /\ file \in {NoFile, FileOf(<<"o", "l", "d">>)}
    /\ diags = <<>>
    /\ rendered = <<>>
    /\ ioErr = ""
    /\ outcome = NoOutcome

\* File::create fails: the error is reported and the function returns
CreateFails ==
    /\ pc = "create"
    /\ \E why \in IoErrors :
        /\ ioErr' = why
        /\ diags' = Append(diags, [msg |-> "Unable to write to outuput file",
                                   file |-> Trim(path), why |-> why])
    /\ outcome' = Returned
    /\ pc' = "done"
    /\ UNCHANGED <<program, path, file, rendered, identVars, resolveVars, stmtVars, itemVars, callVars, btypVars>>

\* File::create succeeds: the file exists and is empty
CreateFile ==
    /\ pc = "create"
    /\ file' = FileOf(<<>>)
    /\ pc' = "header"
    /\ UNCHANGED <<program, path, diags, rendered, ioErr, outcome,
                   identVars, resolveVars, stmtVars, itemVars, callVars, btypVars>>

WriteHeader ==
    /\ pc = "header"
    /\ file' = FileOf(file.content \o Header(file_stem(Trim(path))))
    /\ pc' = "translate"
    /\ UNCHANGED <<program, path, diags, rendered, ioErr, outcome,
                   identVars, resolveVars, stmtVars, itemVars, callVars, btypVars>>

\* the write of the header fails: unwrap() panics
WriteHeaderFails ==
    /\ pc = "header"
    /\ \E why \in IoErrors, part \in PartialWrites(Header(file_stem(Trim(path)))) :
        /\ ioErr' = why
        /\ file' = FileOf(file.content \o part)
        /\ outcome' = UnwrapErr(why)
    /\ pc' = "done"
    /\ UNCHANGED <<program, path, diags, rendered, identVars, resolveVars, stmtVars, itemVars, callVars, btypVars>>

\* translate_program builds the document and render writes it to w
TranslateProgram ==
    /\ pc = "translate"
    /\ IsOk(translate_program(program, StmtDict))
    /\ rendered' = Render(translate_program(program, StmtDict).ok, PageWidth)
    /\ pc' = "body"
    /\ UNCHANGED <<program, path, file, diags, ioErr, outcome,
                   identVars, resolveVars, stmtVars, itemVars, callVars, btypVars>>

\* translate_program aborts
TranslateAborts ==
    /\ pc = "translate"
    /\ IsAbort(translate_program(program, StmtDict))
    /\ outcome' = translate_program(program, StmtDict)
    /\ pc' = "done"
    /\ UNCHANGED <<program, path, file, diags, rendered, ioErr,
                   identVars, resolveVars, stmtVars, itemVars, callVars, btypVars>>

WriteBody ==
    /\ pc = "body"
    /\ file' = FileOf(file.content \o rendered)
    /\ outcome' = Returned
    /\ pc' = "done"
    /\ UNCHANGED <<program, path, diags, rendered, ioErr, identVars, resolveVars, stmtVars, itemVars, callVars, btypVars>>

\* the write of the rendered program fails: unwrap() panics
WriteBodyFails ==
    /\ pc = "body"
    /\ \E why \in IoErrors, part \in PartialWrites(rendered) :
        /\ ioErr' = why
        /\ file' = FileOf(file.content \o part)
        /\ outcome' = UnwrapErr(why)
    /\ pc' = "done"
    /\ UNCHANGED <<program, path, diags, rendered, identVars, resolveVars, stmtVars, itemVars, callVars, btypVars>>

NextEmit ==
    \/ CreateFails
    \/ CreateFile
    \/ WriteHeader
    \/ WriteHeaderFails
    \/ TranslateProgram
    \/ TranslateAborts
    \/ WriteBody
    \/ WriteBodyFails

SpecEmit == InitEmit /\ [][NextEmit]_vars

(***************************************************************************)
(* Calls of translate_item                                                 *)
(***************************************************************************)
V_new == <<"n", "e", "w">>
V_f == <<"f">>

UsizeArg(name) == [x |-> Var(name), tau |-> [borrow |-> "Consumed", ty |-> Ty("Usize")]]

\* A function declaration: the block returns what the signature says, or
\* has lost its return type.
FnDecls ==
    {[i |-> "FnDecl", f |-> Var(name), sig |-> [args |-> args, ret |-> ret],
      b |-> [stmts |-> ss, mutated |-> None, return_typ |-> rt]] :
        name \in {V_f, V_new},
        args \in {<<>>, <<UsizeArg(V_x)>>, <<UsizeArg(V_x), UsizeArg(V_y)>>},
        ret \in {Ty("Unit"), Ty("Usize")},
        ss \in StmtSeqs(MaxBlockLen),
        rt \in {[borrow |-> "Consumed", ty |-> Ty("Unit")],
                [borrow |-> "Consumed", ty |-> Ty("Usize")], None}}

WellTypedFnDecls ==
    {d \in FnDecls : IsNone(d.b.return_typ) \/ d.b.return_typ.ty = d.sig.ret}

InitItem ==
    /\ pc = "call"
    /\ IdentIdle
    /\ ResolveIdle
    /\ StmtIdle
    /\ EmitIdle
    /\ CallIdle /\ BtypIdle
    /\ item \in WellTypedFnDecls \cup Items
    /\ itemOut = NoOutcome

TranslateItem ==
    /\ pc = "call"
    /\ itemOut' = translate_item(item, StmtDict)
    /\ pc' = "done"
    /\ UNCHANGED <<item, identVars, resolveVars, stmtVars, emitVars, callVars, btypVars>>

NextItem == TranslateItem

SpecItem == InitItem /\ [][NextItem]_vars

(***************************************************************************)
(* Calls of translate_func_name                                            *)
(***************************************************************************)
\* dictionaries of programs that declare an array, an alias of it and a
\* natural integer
CallDicts ==
    {<<>>,
     (TypeName(1) :> [ty |-> ArrayTypInt, entry |-> "Array"])
        @@ (TypeName(2) :> [ty |-> NamedTyp(TypeName(1)), entry |-> "Alias"]),
     (TypeName(1) :> [ty |-> ArrayTypIdent, entry |-> "Array"])
        @@ (TypeName(2) :> [ty |-> NatTyp, entry |-> "NaturalInteger"]),
     (TypeName(1) :> [ty |-> SeqTyp, entry |-> "Alias"])
        @@ (TypeName(2) :> [ty |-> Ty("UInt8"), entry |-> "Alias"])}

SecretIntConstructors ==
    {<<s>> \o w : s \in {"U", "I"},
                  w \in {<<"8">>, <<"1", "6">>, <<"3", "2">>, <<"6", "4">>, <<"1", "2", "8">>}}

CallNames ==
    {Var(n) : n \in SecretIntConstructors
                \cup {V_new, Txt_from_slice, Txt_from_slice_range, <<"l", "e", "n">>,
                      Txt_uint \o <<"8">>, <<"U", "s", "i", "z", "e">>}}
        \cup {[hac |-> 0, s |-> <<"U", "8">>]}

CallPrefixes == PrefixTypes \cup {None}

InitCall ==
    /\ pc = "call"
    /\ IdentIdle
    /\ ResolveIdle
    /\ StmtIdle
    /\ EmitIdle
    /\ ItemIdle /\ BtypIdle
    /\ call \in [prefix : CallPrefixes, name : CallNames, typ_dict : CallDicts]
    /\ callOut = NoOutcome

TranslateFuncName ==
    /\ pc = "call"
    /\ callOut' = translate_func_name(call.prefix, call.name, call.typ_dict)
    /\ pc' = "done"
    /\ UNCHANGED <<call, identVars, resolveVars, stmtVars, emitVars, itemVars, btypVars>>

NextCall == TranslateFuncName

SpecCall == InitCall /\ [][NextCall]_vars

(***************************************************************************)
(* Calls of translate_base_typ                                             *)
(***************************************************************************)
MaxArraySize == 12

SizedIntKinds == {"UInt8", "Int8", "UInt16", "Int16", "UInt32", "Int32", "UInt64",
                  "Int64", "UInt128", "Int128"}

SimpleTyps == {Ty(k) : k \in SizedIntKinds \cup {"Unit", "Bool", "Usize", "Isize", "Str"}}

\* the sizes of arrays: a literal, or the name of a constant
ArraySizes ==
    {[int |-> n] : n \in 0..MaxArraySize}
        \cup {[ident |-> c] : c \in {<<"N">>, <<"n">>, <<"l", "e", "n">>,
                                     <<"K", "e", "y", "L", "e", "n">>}}

BaseTyps ==
    SimpleTyps
        \cup {[k |-> "Seq", el |-> t] : t \in SimpleTyps}
        \cup {[k |-> "Array", size |-> sz, el |-> t] : sz \in ArraySizes, t \in SimpleTyps}
        \cup {NamedTyp(TypeName(1)), HygienicTyp, NatTyp, SeqTyp,
              [k |-> "Named", id |-> [orig |-> TypeName(1)],
               args |-> <<Ty("UInt8"), Ty("Bool")>>],
              [k |-> "Variable", id |-> 0],
              [k |-> "Tuple", args |-> <<Ty("Usize"), SeqTyp>>],
              [k |-> "Seq", el |-> ArrayTypIdent]}

InitBtyp ==
    /\ pc = "call"
    /\ IdentIdle
    /\ ResolveIdle
    /\ StmtIdle
    /\ EmitIdle
    /\ ItemIdle /\ CallIdle
    /\ btyp \in BaseTyps
    /\ btypOut = NoValue

TranslateBaseTyp ==
    /\ pc = "call"
    /\ btypOut' = translate_base_typ(btyp)
    /\ pc' = "done"
    /\ UNCHANGED <<btyp, identVars, resolveVars, stmtVars, emitVars, itemVars, callVars>>

NextBtyp == TranslateBaseTyp

SpecBtyp == InitBtyp /\ [][NextBtyp]_vars

(***************************************************************************)
(* Claims about translate_ident and translate_ident_str                    *)
(***************************************************************************)
Ident_U32 == [orig |-> <<"U", "3", "2">>]
Ident_new == [orig |-> <<"n", "e", "w">>]
Txt_new_ == <<"n", "e", "w", "_">>
Txt_iint == <<"i", "i", "n", "t">>

\* C7 as stated: translate_ident_str("U32") is the token translate_base_typ
\* gives for BaseTyp::UInt32.
C7_SameAsUInt32Token ==
    (pc = "done" /\ ident = Ident_U32)
        => identOut = translate_base_typ([k |-> "UInt32"])

\* C7 amended: translate_ident_str("U32") is uint32, which is the token of
\* BaseTyp::UInt32 (pub_uint32) without its pub_ prefix.
C7_U32IsUInt32TokenWithoutPub ==
    (pc = "done" /\ ident = Ident_U32)
        => /\ identOut = <<"u", "i", "n", "t", "3", "2">>
           /\ Txt_pub_ \o identOut = translate_base_typ([k |-> "UInt32"])

C7_Witness == pc = "done" /\ ident = Ident_U32 /\ identOut = Txt_uint \o <<"3", "2">>

\* the identifiers I<1-3 digits>
IsSignedIntName(x) ==
    /\ IsOriginal(x)
    /\ Len(x.orig) \in 2..4
    /\ x.orig[1] = "I"
    /\ \A i \in 2..Len(x.orig) : IsDigit(x.orig[i])

\* C8: for an identifier I<1-3 digits> the token returned by
\* translate_ident_str does not contain "iint".
C8_NoIintInSignedIntName ==
    (pc = "done" /\ IsSignedIntName(ident)) => ~Contains(identOut, Txt_iint)

\* the snake-case form the reserved-word escape is applied to
CanonicalForm(x) == to_snake_case(SignedIntFix(SecretIntRewrite(IdentString(x))))

\* C9: the token translate_ident returns is never the bare keyword new; an
\* identifier whose snake-case form is new yields new_, and every other
\* identifier yields its snake-case form, which has no underscore added at
\* its end.
C9_ReservedWordEscape ==
    pc = "done" =>
        /\ identOut # NewKeyword
        /\ CanonicalForm(ident) = NewKeyword => identOut = Txt_new_
        /\ CanonicalForm(ident) # NewKeyword =>
                /\ identOut = CanonicalForm(ident)
                /\ ~EndsWith(identOut, <<"_">>)
        /\ ident = Ident_new => identOut = Txt_new_

C9_Witness == pc = "done" /\ ident = Ident_new /\ identOut = Txt_new_

(***************************************************************************)
(* Claims about translate_statement and translate_expression               *)
(***************************************************************************)
RECURSIVE CommaJoin(_)
CommaJoin(names) ==
    IF names = <<>> THEN <<>>
    ELSE IF Len(names) = 1 THEN names[1]
    ELSE names[1] \o <<",", " ">> \o CommaJoin(Tail(names))

\* the tuple "(v1, .., vn)" of the names of an annotation's variables
TupleOf(mi) == <<"(">> \o CommaJoin([i \in DOMAIN mi.vars |-> mi.vars[i].orig]) \o <<")">>

Words(ws) == Intersperse(ws, Space)

\* what a call gave, its document rendered on the page
OnPage(o) == IF IsOk(o) THEN Ok(Render(o.ok, PageWidth)) ELSE o

\* the tokens of a rendered text: the text with every run of blanks and line
\* breaks taken as one blank
IsKept(c) == c # "<drop>"
Tokens(t) ==
    SelectSeq([i \in DOMAIN t |->
                    IF t[i] \in {" ", "\n"}
                    THEN IF i > 1 /\ t[i - 1] \in {" ", "\n"} THEN "<drop>" ELSE " "
                    ELSE t[i]],
              IsKept)

\* what a call gave, the tokens of its document rendered on the page
TokensOf(o) == IF IsOk(o) THEN Ok(Tokens(Render(o.ok, PageWidth))) ELSE o

IsConditional(s) == "s" \in DOMAIN s /\ s.s = "Conditional" /\ ~IsNone(s.mutated)
IsForLoop(s) == "s" \in DOMAIN s /\ s.s = "ForLoop" /\ ~IsNone(s.b.mutated)

\* what a branch of a conditional holds: the block, a line break and the
\* trailing statement, or the trailing statement alone
Branch(block, trailing) ==
    IF IsNone(block) THEN trailing
    ELSE AppendAll(<<translate_block(block, TRUE, StmtDict), Ok(Hardline), trailing>>)

\* C5: a conditional with annotation vars = [v1..vn] is bound to the pattern
\* (v1, .., vn) in annotation order; its then-branch ends with the rendering
\* of the annotation's trailing statement and its else-branch ends with, or
\* without an else block is, that same rendering, which is the tuple of the
\* pattern.  The documents are rendered on the page of the output file and
\* compared by their tokens.
C5_MutatedTupleConsistency ==
    (pc = "done" /\ IsConditional(stmt)) =>
        LET trailing == translate_statement(stmt.mutated.stmt, StmtDict)
            thenB == Branch(stmt.b1, trailing)
            elseB == Branch(stmt.b2, trailing)
        IN  /\ OnPage(trailing) = Ok(TupleOf(stmt.mutated))
            /\ IF IsAbort(thenB) \/ IsAbort(elseB)
               THEN IsAbort(stmtOut)
               ELSE TokensOf(stmtOut) =
                        Ok(Tokens(Words(<<Txt_let, TupleOf(stmt.mutated), <<"=">>,
                                          Txt_if, <<"c">>, Txt_then,
                                          Txt_begin, Render(thenB.ok, PageWidth), Txt_end,
                                          Txt_else,
                                          Txt_begin, Render(elseB.ok, PageWidth), Txt_end,
                                          Txt_in>>)))

C5_Witness ==
    /\ pc = "done" /\ IsConditional(stmt)
    /\ stmt.mutated = MutatedInfo(<<V_acc, V_b>>)
    /\ IsNone(stmt.b2)
    /\ OnPage(stmtOut) =
        Ok(<<"l", "e", "t", " ", "(", "a", "c", "c", ",", " ", "b", ")",
             " ", "=", "\n", " ", " ", "i", "f", " ", "c", " ", "t", "h",
             "e", "n", " ", "b", "e", "g", "i", "n", "\n", " ", " ", " ",
             " ", "l", "e", "t", " ", "b", " ", "=", " ", "a", "c", "c",
             " ", "i", "n", "\n", " ", " ", " ", " ", "(", "a", "c", "c",
             ",", " ", "b", ")", "\n", " ", " ", "e", "n", "d", " ", "e",
             "l", "s", "e", " ", "b", "e", "g", "i", "n", " ", "(", "a",
             "c", "c", ",", " ", "b", ")", "\n", " ", " ", "e", "n", "d",
             "\n", "i", "n">>)

\* the tokens of "let T = foldi (lo) (hi) (fun (i, T) -> <body>; T) T in"
FoldiWithSemicolon(T, body) ==
    Tokens(Words(<<Txt_let, T, <<"=">>, Txt_foldi,
                   <<"(">> \o V_lo \o <<")">>,
                   <<"(">> \o V_hi \o <<")">>,
                   Txt_fun, <<"(">> \o V_i \o <<",">>, T \o <<")">>,
                   Txt_arrow, body \o <<";">>, T \o <<")">>,
                   T, Txt_in>>))

\* C6: a loop over i from lo to hi whose body mutates only acc has, rendered,
\* the tokens of "let acc = foldi (lo) (hi) (fun (i, acc) -> <body>; acc) acc in":
\* the pattern, the closure's accumulator, the closure's trailing expression
\* and the initial accumulator are the same tuple of the mutated variable,
\* written acc or (acc), and a ";" separates the body from the trailing
\* tuple.
C6_FoldiBareSemicolon ==
    (/\ pc = "done" /\ IsForLoop(stmt)
     /\ Len(stmt.b.mutated.vars) = 1
     /\ IsOk(translate_block(stmt.b, TRUE, StmtDict))) =>
        LET acc == stmt.b.mutated.vars[1].orig
            body == Render(translate_block(stmt.b, TRUE, StmtDict).ok, PageWidth)
        IN  \/ TokensOf(stmtOut) = Ok(FoldiWithSemicolon(acc, body))
            \/ TokensOf(stmtOut) = Ok(FoldiWithSemicolon(TupleOf(stmt.b.mutated), body))

IsSizeArith(s) ==
    /\ "s" \in DOMAIN s /\ s.s = "ReturnExp" /\ s.e1.e = "Binary"
    /\ ~IsNone(s.e1.op_typ) /\ s.e1.op_typ.k \in {"Usize", "Isize"}
    /\ s.e1.op \in ArithOps

\* C10: with operand type usize or isize, x <op> y for each of + - * / %
\* renders as "(x) <op> (y)" with the plain infix symbol.
C10_SizeArithmeticPlain ==
    (pc = "done" /\ IsSizeArith(stmt)) =>
        OnPage(stmtOut) = Ok(Words(<<<<"(">> \o V_x \o <<")">>,
                             PlainInfix(stmt.e1.op),
                             <<"(">> \o V_y \o <<")">>>>))

(***************************************************************************)
(* Claims about translate_binop and translate_prefix_for_func_name         *)
(***************************************************************************)
NoType == [k |-> "<no type>"]

\* ty is a named type that has an entry in d
IsDictNamed(ty, d) ==
    ty.k = "Named" /\ IsOriginal(ty.id) /\ ty.id.orig \in DOMAIN d

\* The type at the end of the chain of ty: the first type that is not a
\* name with an entry of one of the kinds in entries; NoType when the chain
\* has not ended after fuel names.
RECURSIVE Follow(_, _, _, _)
Follow(ty, d, fuel, entries) ==
    IF IsDictNamed(ty, d) /\ d[ty.id.orig].entry \in entries
    THEN IF fuel = 0 THEN NoType
         ELSE Follow(d[ty.id.orig].ty, d, fuel - 1, entries)
    ELSE ty

DictEntries == {"Alias", "Array", "NaturalInteger"}

Underlying(ty, d) == Follow(ty, d, Cardinality(DOMAIN d), DictEntries)

AliasEnd(ty, d) == Follow(ty, d, Cardinality(DOMAIN d), {"Alias", "Array"})

\* no cyclic aliasing: the chain of every name ends
Acyclic(d) == \A n \in DOMAIN d : Underlying(NamedTyp(n), d) # NoType

\* the operators valid on an underlying type, read narrowly: translate_binop
\* returns a symbol for it, and on a natural integer it is arithmetic
ValidOn(op_, ty, d) ==
    /\ IsOk(translate_binop(op_, ty, d))
    /\ ty.k = "NaturalInteger" => op_ \in ArithOps

\* C1 as stated: without cyclic aliasing, for a named type T with an Alias,
\* Array or NaturalInteger entry that resolves to the underlying type U, and
\* an operator valid on U, translate_binop gives for T the symbol it gives
\* for U.
C1_AliasTransparency ==
    (/\ pc = "done" /\ fn = "binop"
     /\ Acyclic(dict)
     /\ IsDictNamed(typ, dict)
     /\ ValidOn(op, Underlying(typ, dict), dict))
        => resOut = translate_binop(op, Underlying(typ, dict), dict)

\* C1 amended: a named type T with an Alias or Array entry, whose chain of
\* Alias and Array entries ends at the type V, ends translate_binop as V
\* does (the same symbol or the same abort), for every operator.  A
\* NaturalInteger entry is not transparent: for + - * / % it gives the
\* plain infix symbol, whatever its underlying type gives.
C1_AliasArrayTransparency ==
    (pc = "done" /\ fn = "binop" /\ IsDictNamed(typ, dict)) =>
        /\ (/\ dict[typ.id.orig].entry \in {"Alias", "Array"}
            /\ AliasEnd(typ, dict) # NoType)
                => resOut = translate_binop(op, AliasEnd(typ, dict), dict)
        /\ (dict[typ.id.orig].entry = "NaturalInteger" /\ op \in ArithOps)
                => resOut = Ok(PlainInfix(op))

C1_Witness ==
    /\ pc = "done" /\ fn = "binop" /\ op = "Add"
    /\ typ = NamedTyp(TypeName(1))
    /\ DOMAIN dict = {TypeName(1), TypeName(2)}
    /\ dict[TypeName(1)] = [ty |-> NamedTyp(TypeName(2)), entry |-> "Alias"]
    /\ dict[TypeName(2)] = [ty |-> ArrayTypInt, entry |-> "Array"]
    /\ steps = 2
    /\ resOut = Ok(SeqInfix("Add"))

\* C2: without cyclic aliasing the recursion of translate_binop and of
\* translate_prefix_for_func_name through named types makes at most as many
\* recursive calls as the dictionary has entries, and so neither exhausts
\* the stack nor runs on forever.
C2_RecursionBounded ==
    (fn \in {"binop", "prefix"} /\ Acyclic(dict)) =>
        /\ steps <= Cardinality(DOMAIN dict)
        /\ resOut # StackOverflow
        /\ pc # "loop"
        /\ pc = "call" =>
                \/ steps < MaxDepth
                \/ fn = "binop" /\ BinopNamed(op, cur, dict).kind # "recurse"
                \/ fn = "prefix" /\ PrefixCall(cur, dict).kind # "recurse"

C2_Witness ==
    /\ pc = "done" /\ fn = "prefix"
    /\ Acyclic(dict)
    /\ Cardinality(DOMAIN dict) >= 2
    /\ steps = Cardinality(DOMAIN dict)

\* C12: for every operand type and every dictionary translate_binop returns
\* normally, and gives each shift operator its named function and each
\* comparison, equality and boolean operator one fixed symbol, whatever the
\* operand type.
C12_NonArithmeticTypeIndependent ==
    (fn = "binop" /\ op \in ShiftOps \cup CompareOps \cup BoolOps) =>
        /\ pc # "loop"
        /\ pc = "done" => resOut = Ok(GenericInfix(op))

(***************************************************************************)
(* Claims about translate_and_write_to_file                                *)
(***************************************************************************)
TranslationAborted == outcome \in {Panic, Unimplemented}

\* C3: when the translation of the program aborts, the output file holds
\* the complete header and all items as rendered on the page, or does not
\* exist, or holds nothing.
C3_NoPartialOutputOnAbort ==
    (pc = "done" /\ TranslationAborted) =>
        \/ file = NoFile
        \/ file = FileOf(<<>>)
        \/ /\ IsOk(translate_program(program, StmtDict))
           /\ file = FileOf(Header(file_stem(Trim(path)))
                            \o Render(translate_program(program, StmtDict).ok,
                                      PageWidth))

\* C4: when creating the output file or writing to it fails, the function
\* reports one diagnostic naming the file and the error and returns.
C4_IoErrorsAreDiagnostics ==
    (pc = "done" /\ ioErr # "") =>
        /\ outcome = Returned
        /\ Len(diags) = 1
        /\ diags[1].file = Trim(path)
        /\ diags[1].why = ioErr

(***************************************************************************)
(* Claims about translate_item                                             *)
(***************************************************************************)
IsUnitFnDecl(i) == "i" \in DOMAIN i /\ i.i = "FnDecl" /\ i.sig.ret.k = "Unit"

\* the parameters of a function declaration: "(x : T) (y : U)", or "()"
ParamsOf(i) ==
    IF i.sig.args = <<>> THEN Txt_unit_lit
    ELSE Words([k \in DOMAIN i.sig.args |->
            <<"(">> \o translate_ident(i.sig.args[k].x) \o <<" ", ":", " ">>
                \o Render(translate_base_typ(i.sig.args[k].tau.ty), PageWidth)
                \o <<")">>])

\* "let <name> <params> : unit ="
UnitHeadOf(i) ==
    Words(<<Txt_let, translate_ident(i.f), ParamsOf(i), <<":">>, Txt_unit, <<"=">>>>)

\* C11: a function returning unit has, rendered, the tokens of
\* "let <name> <params> : unit ="
\* followed by its body statements and then exactly one "()"; the function
\* new without parameters has the head "let new_ () : unit =".
C11_UnitFnOneTrailingUnit ==
    (pc = "done" /\ IsUnitFnDecl(item) /\ IsOk(itemOut)) =>
        /\ TokensOf(itemOut) =
                Ok(Tokens(UnitHeadOf(item) \o Space
                            \o Render(translate_block(item.b, TRUE, StmtDict).ok, PageWidth)
                            \o Space \o Txt_unit_lit))
        /\ (item.f = Var(V_new) /\ item.sig.args = <<>>) =>
                UnitHeadOf(item) = <<"l", "e", "t", " ", "n", "e", "w", "_", " ", "(", ")",
                                     " ", ":", " ", "u", "n", "i", "t", " ", "=">>

(***************************************************************************)
(* Claims about translate_func_name                                        *)
(***************************************************************************)
StartsWith(t, pre) == Len(t) >= Len(pre) /\ SubSeq(t, 1, Len(pre)) = pre

\* C13: an unprefixed call of a secret-integer constructor name U8..U128,
\* I8..I128 has the call name "secret"; every other unprefixed name is
\* rendered as its translated identifier.
C13_UnprefixedSecretConstructor ==
    (pc = "done" /\ "prefix" \in DOMAIN call /\ IsNone(call.prefix)) =>
        OnPage(callOut) = Ok(IF IsOriginal(call.name) /\ call.name.orig \in SecretIntConstructors
                     THEN Txt_secret
                     ELSE translate_ident(call.name))

IsPrefixedCall == pc = "done" /\ "prefix" \in DOMAIN call /\ ~IsNone(call.prefix)

\* C14 as stated: the namespace is "seq" for a sequence or array, "nat" for a
\* natural integer and the type's own translated name for every other
\* prefix type; the call name starts with "<namespace>_<translated name>".
C14_OwnNameNamespace ==
    (IsPrefixedCall /\ Underlying(call.prefix, call.typ_dict) # NoType) =>
        LET u == Underlying(call.prefix, call.typ_dict)
            ns == CASE u.k \in {"Seq", "Array"} -> Txt_seq
                    [] u.k = "NaturalInteger" -> Txt_nat
                    [] OTHER -> Render(translate_base_typ(u), PageWidth)
        IN  /\ IsOk(callOut)
            /\ StartsWith(Render(callOut.ok, PageWidth), ns \o <<"_">> \o translate_ident(call.name))

\* C14: the namespace is "seq" for a prefix that is, directly or through the
\* dictionary, a sequence or an array, "nat" for a natural integer, "int" for
\* every sized or machine-size integer type, "string" for a string and the
\* translated name for a name without dictionary entry; for bool, unit, a
\* tuple, a type variable and a hygienic name the call aborts.  The call name
\* is "<namespace>_<translated name>", followed by the size of the array for
\* the constructors that take it and by "#<element type>" for a prefix that
\* is itself a sequence or an array.  The name is compared as rendered.
C14_NamespaceSelection ==
    (IsPrefixedCall /\ Underlying(call.prefix, call.typ_dict) # NoType) =>
        LET u == Underlying(call.prefix, call.typ_dict)
            fname == translate_ident(call.name)
            ns == CASE u.k \in {"Seq", "Array"} -> Txt_seq
                    [] u.k = "NaturalInteger" -> Txt_nat
                    [] u.k \in IntKinds -> Txt_int
                    [] u.k = "Str" -> Txt_string
                    [] u.k = "Named" /\ IsOriginal(u.id) -> translate_ident_str(u.id.orig)
                    [] OTHER -> NoValue
            size == IF ns = Txt_seq /\ u.k = "Array" /\ fname \in SizedConstructors
                    THEN Space \o (IF "int" \in DOMAIN u.size
                                   THEN Decimal(u.size.int)
                                   ELSE translate_ident_str(u.size.ident))
                    ELSE <<>>
            elem == IF call.prefix.k \in {"Seq", "Array"}
                    THEN <<" ", "#">> \o Render(translate_base_typ(call.prefix.el), PageWidth)
                    ELSE <<>>
        IN  IF ns = NoValue THEN callOut = Panic
            ELSE OnPage(callOut) = Ok(ns \o <<"_">> \o fname \o size \o elem)

C14_Witness ==
    /\ IsPrefixedCall
    /\ call.prefix = NamedTyp(TypeName(2))
    /\ call.typ_dict # <<>>
    /\ call.typ_dict[TypeName(2)] = [ty |-> NamedTyp(TypeName(1)), entry |-> "Alias"]
    /\ call.name = Var(V_new)
    /\ OnPage(callOut) = Ok(<<"s", "e", "q", "_", "n", "e", "w", "_", " ", "1", "6">>)

\* C15: a call of new, from_slice or from_slice_range whose prefix is a named
\* alias of a fixed-size array has the call name of the call whose prefix is
\* that array type written directly.
C15_AliasIndependentCallName ==
    (/\ IsPrefixedCall
     /\ IsDictNamed(call.prefix, call.typ_dict)
     /\ AliasEnd(call.prefix, call.typ_dict).k = "Array"
     /\ translate_ident(call.name) \in SizedConstructors) =>
        callOut = translate_func_name(AliasEnd(call.prefix, call.typ_dict),
                                      call.name, call.typ_dict)

\* C18: without cyclic aliasing, when translate_prefix_for_func_name returns
\* the namespace "seq" its prefix info is Regular or Array, so the size
\* argument selection of translate_func_name does not panic.
C18_SeqPrefixNeverNatMod ==
    (/\ pc = "done" /\ fn = "prefix" /\ Acyclic(dict)
     /\ IsOk(resOut) /\ resOut.ok.module = SEQ_MODULE) =>
        /\ resOut.ok.info.fp \in {"Regular", "Array"}
        /\ \A n \in SizedConstructors : IsOk(SizeArg(resOut.ok.module, n, resOut.ok.info))

C18_Witness ==
    /\ pc = "done" /\ fn = "prefix" /\ Acyclic(dict)
    /\ typ = NamedTyp(TypeName(1))
    /\ DOMAIN dict = {TypeName(1), TypeName(2)}
    /\ dict[TypeName(1)] = [ty |-> NamedTyp(TypeName(2)), entry |-> "Alias"]
    /\ dict[TypeName(2)] = [ty |-> ArrayTypIdent, entry |-> "Array"]
    /\ resOut = Ok([module |-> SEQ_MODULE,
                    info |-> [fp |-> "Array", size |-> [ident |-> <<"N">>]]])

(***************************************************************************)
(* Claims about translate_base_typ                                         *)
(***************************************************************************)
WidthOf(kind) ==
    CASE kind \in {"UInt8", "Int8"} -> <<"8">>
      [] kind \in {"UInt16", "Int16"} -> <<"1", "6">>
      [] kind \in {"UInt32", "Int32"} -> <<"3", "2">>
      [] kind \in {"UInt64", "Int64"} -> <<"6", "4">>
      [] kind \in {"UInt128", "Int128"} -> <<"1", "2", "8">>

IsUnsignedKind(kind) == kind \in {"UInt8", "UInt16", "UInt32", "UInt64", "UInt128"}

\* C16: the unsigned integer type of width W is rendered "pub_uint<W>" and
\* the signed one "pub_int<W>"; the ten tokens are pairwise distinct and each
\* contains its width.
C16_SizedIntTokens ==
    /\ (pc = "done" /\ "k" \in DOMAIN btyp /\ btyp.k \in SizedIntKinds) =>
            /\ btypOut = <<"p", "u", "b", "_">>
                            \o (IF IsUnsignedKind(btyp.k) THEN <<"u">> ELSE <<>>)
                            \o <<"i", "n", "t">> \o WidthOf(btyp.k)
            /\ Contains(btypOut, WidthOf(btyp.k))
    /\ \A k1, k2 \in SizedIntKinds :
            k1 # k2 => translate_base_typ(Ty(k1)) # translate_base_typ(Ty(k2))

\* C17: an array type whose size is the constant c is rendered
\* "lseq <T> <size>" with <size> the translated identifier of c, the token
\* translate_func_name appends for an array constructor; a literal size is
\* rendered as the decimal integer.
C17_ArraySizeToken ==
    (pc = "done" /\ "k" \in DOMAIN btyp /\ btyp.k = "Array") =>
        /\ Render(btypOut, PageWidth) =
                <<"l", "s", "e", "q", " ">> \o Render(translate_base_typ(btyp.el), PageWidth)
                        \o Space
                        \o (IF "ident" \in DOMAIN btyp.size
                            THEN translate_ident_str(btyp.size.ident)
                            ELSE Decimal(btyp.size.int))
        /\ EndsWith(Render(btypOut, PageWidth),
                    SizeArg(SEQ_MODULE, <<"n", "e", "w", "_">>,
                            [fp |-> "Array", size |-> btyp.size]).ok)

====
